---------------------------- MODULE Spec2Model ----------------------------
(***************************************************************************)
(* A model of the keyword scanner of poiskV4: keyword loading and matching *)
(* (file_processing.py), per-file dispatch to the format extractors        *)
(* (file_processing.py), the pooled scan of one root (search_engine.py)    *)
(* and the two entry points that drive it (main.py, guiV4.py).             *)
(*                                                                         *)
(* Strings are sequences of one-character strings, so that lower(),        *)
(* strip(), substring containment, endswith() and fnmatch() are computed   *)
(* character by character as Python computes them.                         *)
(***************************************************************************)
EXTENDS Integers, Sequences, FiniteSets, TLC

(***************************************************************************)
(* Bounds of the model.                                                    *)
(***************************************************************************)
MaxTextLen == 3

MaxParts == 2

MaxRoots == 2

MaxWorkers == 2

MaxScans == 1

MaxSessions == 2

MaxEdits == 1

(***************************************************************************)
(* Strings.                                                                *)
(***************************************************************************)
UpperLetters == <<"A","B","C","D","E","F","G","H","I","J","K","L","M",
                  "N","O","P","Q","R","S","T","U","V","W","X","Y","Z">>

LowerLetters == <<"a","b","c","d","e","f","g","h","i","j","k","l","m",
                  "n","o","p","q","r","s","t","u","v","w","x","y","z">>

\* str.lower() on one character
LowerChar(c) ==
    IF \E i \in 1..Len(UpperLetters) : UpperLetters[i] = c
    THEN LowerLetters[CHOOSE i \in 1..Len(UpperLetters) : UpperLetters[i] = c]
    ELSE c

\* str.lower()
Lower(s) == [i \in 1..Len(s) |-> LowerChar(s[i])]

\* the Python test `sub in s` on strings
Contains(s, sub) ==
    \E i \in 0..(Len(s) - Len(sub)) :
        \A j \in 1..Len(sub) : s[i + j] = sub[j]

\* str.endswith(suffix)
EndsWith(s, suffix) ==
    /\ Len(suffix) <= Len(s)
    /\ \A j \in 1..Len(suffix) : s[Len(s) - Len(suffix) + j] = suffix[j]

\* str.endswith((s1, s2, ...))
EndsWithAny(s, suffixes) == \E x \in suffixes : EndsWith(s, x)

IsSpace(c) == c = " "

\* str.strip()
Strip(s) ==
    IF \A i \in 1..Len(s) : IsSpace(s[i]) THEN <<>>
    ELSE LET first == CHOOSE i \in 1..Len(s) :
                          ~IsSpace(s[i]) /\ \A j \in 1..(i - 1) : IsSpace(s[j])
             last  == CHOOSE i \in 1..Len(s) :
                          ~IsSpace(s[i]) /\ \A j \in (i + 1)..Len(s) : IsSpace(s[j])
         IN  SubSeq(s, first, last)

\* fnmatch.fnmatch(name, pat) for patterns made of literals, * and ?
\* (os.path.normcase is the identity on POSIX)
RECURSIVE fnmatch(_, _)
fnmatch(name, pat) ==
    IF pat = <<>> THEN name = <<>>
    ELSE IF Head(pat) = "*"
         THEN \/ fnmatch(name, Tail(pat))
              \/ (name # <<>> /\ fnmatch(Tail(name), pat))
    ELSE IF Head(pat) = "?"
         THEN name # <<>> /\ fnmatch(Tail(name), Tail(pat))
    ELSE name # <<>> /\ Head(name) = Head(pat) /\ fnmatch(Tail(name), Tail(pat))

\* any(fnmatch.fnmatch(name, ext) for ext in extensions)
MatchesAny(name, extensions) ==
    \E i \in 1..Len(extensions) : fnmatch(name, extensions[i])

\* position of the last occurrence of character c in s, 0 when there is none
LastIndexOf(s, c) ==
    IF \E i \in 1..Len(s) : s[i] = c
    THEN CHOOSE i \in 1..Len(s) : s[i] = c /\ \A j \in (i + 1)..Len(s) : s[j] # c
    ELSE 0

\* os.path.basename(path)
Basename(path) == SubSeq(path, LastIndexOf(path, "/") + 1, Len(path))

\* os.path.splitext(path)[1]: from the last dot of the base name, unless
\* only dots precede it in the base name
SplitExt(path) ==
    LET base == Basename(path)
        dot  == LastIndexOf(base, ".")
    IN  IF dot = 0 \/ \A j \in 1..(dot - 1) : base[j] = "."
        THEN <<>>
        ELSE SubSeq(base, dot, Len(base))

\* os.path.join(dir, name)
PathJoin(dir, name) == dir \o <<"/">> \o name

\* all strings over an alphabet, up to a length
RECURSIVE StringsUpTo(_, _)
StringsUpTo(alphabet, n) ==
    IF n = 0 THEN {<<>>}
    ELSE LET shorter == StringsUpTo(alphabet, n - 1)
         IN  shorter \cup {Append(s, c) : s \in shorter, c \in alphabet}

(***************************************************************************)
(* State.                                                                  *)
(***************************************************************************)
VARIABLES
    KEYWORDS_LOWER,   \* file_processing.KEYWORDS_LOWER
    keywords_file,    \* the lines of the keyword source
    text,             \* the argument of the last call of search_in_text
    found,            \* what that call returned
    called,           \* whether search_in_text has been called
    pf_in,            \* the arguments of a call of process_file
    pf_out,           \* what that call returned, did and logged
    pf_done,          \* whether the call has returned
    disk,             \* the files on disk, in the order os.walk lists them
    directories_list, \* SearchApp.directories_list
    selected_extensions, \* SearchApp.selected_extensions, split into patterns
    threads_var,      \* SearchApp.threads_var
    max_size_var,     \* SearchApp.max_size_var
    edits,            \* how many times the user has changed the request
    gui_config,       \* SearchApp.config['config']: the capability flags set
    is_searching,     \* SearchApp.is_searching
    total_files,      \* SearchApp.total_files
    processed_files,  \* SearchApp.processed_files
    after_queue,      \* callbacks root.after has queued for the main loop
    scan,             \* the run_search threads, by start order
    output,           \* the blocks appended to search_results.txt
    events,           \* the calls of progress_callback, in order
    passes,           \* the calls of search_files that returned, in order
    started,          \* per scan: the files a pool worker has begun
    stopped_at,       \* per scan: `started` when stop_search ran, -1 if never
    keywords_raises,  \* the encodings in which reading the keyword source raises
                      \* UnicodeDecodeError
    load_result,      \* how the last call of load_keywords ended
    reports,          \* the errors an entry point has reported to the user
    cli,              \* the run of main(): its environment and how far it got
    host              \* the machine: the capabilities check_dependencies finds,
                      \* whether the window's progress callback can raise,
                      \* the search_images option of config.txt

textVars == <<keywords_file, text, found, called>>

fileVars == <<pf_in, pf_out, pf_done>>

requestVars == <<edits, disk, directories_list, selected_extensions, threads_var,
                 max_size_var, gui_config>>

guiVars == <<is_searching, total_files, processed_files, after_queue>>

scanVars == <<scan, output, events, passes, started, stopped_at>>

entryVars == <<keywords_raises, load_result, reports, cli, host>>

vars == <<KEYWORDS_LOWER, textVars, entryVars, fileVars, requestVars, guiVars, scanVars>>

(***************************************************************************)
(* file_processing.py: keywords.                                           *)
(***************************************************************************)
\* the list `keywords` of load_keywords: the stripped non-blank lines
KeywordLines(lines) ==
    {Strip(lines[i]) : i \in {j \in 1..Len(lines) : Strip(lines[j]) # <<>>}}

\* the value load_keywords assigns to KEYWORDS_LOWER
LoadedKeywords(lines) == {Lower(kw) : kw \in KeywordLines(lines)}

\* the encodings load_keywords tries, in order
Encodings == <<"utf-8", "cp1251", "iso-8859-1", "utf-8-sig">>

NotCalled == [raised |-> "not called", message |-> "none", keywords |-> {}]

\* how load_keywords ends on a source with these lines, unreadable in the
\* encodings `raises`: it returns from the first encoding that decodes the
\* source and gives a non-blank line; an encoding that decodes it to no
\* keyword is passed over like one that cannot decode it, and when the loop
\* ends the one ValueError ("could not decode ... with the supported
\* encodings") is raised
LoadKeywordsOutcome(lines, raises) ==
    LET returning == {i \in 1..Len(Encodings) :
                         /\ Encodings[i] \notin raises
                         /\ KeywordLines(lines) # {}}
    IN  IF returning # {}
        THEN [raised |-> "none", message |-> "none", keywords |-> KeywordLines(lines)]
        ELSE [raised |-> "ValueError", message |-> "could not decode", keywords |-> {}]

search_in_text_no_lower(t, keywords) ==
    IF t = <<>> THEN {}
    ELSE {kw \in keywords : Contains(t, kw)}

search_in_text(t, keywords) ==
    IF t = <<>> THEN {}
    ELSE LET text_lower == Lower(t)
         IN  {kw \in keywords : Contains(text_lower, kw)}

(***************************************************************************)
(* file_processing.py: sources and extractors.                             *)
(*                                                                         *)
(* A source (a file on disk or an archive entry) is a record               *)
(*   [name, size, parts]  (a file on disk also has dir and hangs)          *)
(* whose parts are what the format's library yields in order: the text of  *)
(* a plain file, the page texts and embedded images of a PDF, the body and *)
(* images of a DOCX, the string cells of a workbook, the picture of an     *)
(* image file, the entries of an archive.  A part is                       *)
(*   [kind |-> "text",  text, fault]   text handed to search_in_text       *)
(*   [kind |-> "image", text, fault]   text is what OCR recognises         *)
(*   [kind |-> "entry", file, fault]   file is the entry's own source      *)
(* fault = "container": the library raises when it reaches the part;       *)
(* fault = "ocr": opening or recognising the image raises.                 *)
(*                                                                         *)
(* An extractor returns [found, calls, logs]: the keywords, the extractor  *)
(* invocations <<function, source name>> it made, and the log records      *)
(* <<level, source name>> it wrote.                                        *)
(***************************************************************************)
BytesPerMB == 1048576

DOT_PNG  == <<".", "p", "n", "g">>
DOT_JPG  == <<".", "j", "p", "g">>
DOT_JPEG == <<".", "j", "p", "e", "g">>
DOT_BMP  == <<".", "b", "m", "p">>
DOT_GIF  == <<".", "g", "i", "f">>
DOT_TIFF == <<".", "t", "i", "f", "f">>
DOT_PDF  == <<".", "p", "d", "f">>
DOT_DOCX == <<".", "d", "o", "c", "x">>
DOT_XLS  == <<".", "x", "l", "s">>
DOT_XLSX == <<".", "x", "l", "s", "x">>
DOT_ZIP  == <<".", "z", "i", "p">>
DOT_7Z   == <<".", "7", "z">>
DOT_RAR  == <<".", "r", "a", "r">>
DOT_TXT  == <<".", "t", "x", "t">>
DOT_CSV  == <<".", "c", "s", "v">>
DOT_LOG  == <<".", "l", "o", "g">>
DOT_XML  == <<".", "x", "m", "l">>
DOT_HTML == <<".", "h", "t", "m", "l">>
DOT_HTM  == <<".", "h", "t", "m">>

ImageSuffixes == {DOT_PNG, DOT_JPG, DOT_JPEG, DOT_BMP, DOT_GIF, DOT_TIFF}

ExcelSuffixes == {DOT_XLS, DOT_XLSX}

ArchiveSuffixes == {DOT_ZIP, DOT_7Z, DOT_RAR}

\* the suffixes search_in_archive reads directly as text
ArchiveTextSuffixes == {DOT_TXT, DOT_CSV, DOT_LOG, DOT_XML, DOT_HTML, DOT_HTM}

\* the capability flags check_dependencies computes
Capabilities == {"has_pdf", "has_docx", "has_excel", "has_7z", "has_rar", "has_ocr"}

ConfigGetDefaultTrue(config, flag) == TRUE

\* config.get(flag, False): a config is the set of its flags that are true
ConfigGet(config, flag) == flag \in config

Res(f, c, l) == [found |-> f, calls |-> c, logs |-> l]

NoRes == Res({}, {}, {})

\* found.update(...) over a collection of extractor results
Join(rs) ==
    Res(UNION {r.found : r \in rs}, UNION {r.calls : r \in rs},
        UNION {r.logs : r \in rs})

\* the index of the first part at which the container library raises,
\* among the parts it reaches (a set of indices), Len(parts) + 1 when it never does
FirstFault(parts, reached) ==
    LET faulty == {i \in reached : parts[i].fault = "container"}
    IN  IF faulty = {} THEN Len(parts) + 1
        ELSE CHOOSE i \in faulty : \A j \in faulty : i <= j

Indices(parts) == 1..Len(parts)

ErrorIf(cond, name) == IF cond THEN {<<"error", name>>} ELSE {}

search_in_image(part, name, config, keywords) ==
    IF ~ConfigGet(config, "has_ocr")
    THEN Res({}, {<<"search_in_image", name>>}, {})
    ELSE IF part.kind # "image" \/ part.fault # "none"
    THEN Res({}, {<<"search_in_image", name>>, <<"ocr", name>>}, {<<"error", name>>})
    ELSE Res(search_in_text(part.text, keywords),
             {<<"search_in_image", name>>, <<"ocr", name>>}, {})

TempDirNoFinally(name, failed) ==
    {<<"mkdtemp", name>>} \cup (IF failed THEN {} ELSE {<<"cleanup", name>>})

\* with tempfile.TemporaryDirectory() as temp_dir: the directory made for
\* `name` is created on entry and removed on exit, whether the body raised
\* (failed) or not
TempDir(name, failed) == {<<"mkdtemp", name>>, <<"cleanup", name>>}

\* one page text or one embedded image of a document
DocPart(part, name, config, keywords) ==
    IF part.kind = "text" THEN Res(search_in_text(part.text, keywords), {}, {})
    ELSE IF part.kind = "image" THEN search_in_image(part, name, config, keywords)
    ELSE NoRes

search_in_pdf_all_or_nothing(src, config, keywords) ==
    LET stop == FirstFault(src.parts, Indices(src.parts))
        rs   == {DocPart(src.parts[i], src.name, config, keywords) : i \in 1..(stop - 1)}
        all  == Join(rs)
    IN  IF stop <= Len(src.parts)
        THEN Res({}, all.calls \cup {<<"search_in_pdf", src.name>>}, {<<"error", src.name>>})
        ELSE Res(all.found, all.calls \cup {<<"search_in_pdf", src.name>>}, all.logs)

search_in_pdf(src, config, keywords) ==
    LET stop == FirstFault(src.parts, Indices(src.parts))
        rs   == {DocPart(src.parts[i], src.name, config, keywords) : i \in 1..(stop - 1)}
        all  == Join(rs)
    IN  Res(all.found, all.calls \cup {<<"search_in_pdf", src.name>>},
            all.logs \cup ErrorIf(stop <= Len(src.parts), src.name))

search_in_docx(src, config, keywords) ==
    LET allTexts   == {i \in Indices(src.parts) : src.parts[i].kind = "text"}
        allImages  == {i \in Indices(src.parts) : src.parts[i].kind = "image"}
        textStop   == FirstFault(src.parts, allTexts)
        imageStop  == FirstFault(src.parts, allImages)
        texts  == IF textStop <= Len(src.parts) THEN {} ELSE allTexts
        images == IF textStop <= Len(src.parts) \/ imageStop <= Len(src.parts) THEN {}
                  ELSE allImages
        all == Join({DocPart(src.parts[i], src.name, config, keywords) :
                         i \in texts \cup images})
        temp == IF textStop <= Len(src.parts) THEN {}
                ELSE TempDir(src.name, imageStop <= Len(src.parts))
    IN  Res(all.found, all.calls \cup {<<"search_in_docx", src.name>>} \cup temp,
            all.logs \cup ErrorIf(textStop <= Len(src.parts) \/ imageStop <= Len(src.parts),
                                  src.name))

search_in_excel(src, keywords) ==
    IF Len(Basename(src.name)) >= 2 /\ SubSeq(Basename(src.name), 1, 2) = <<"~", "$">>
    THEN Res({}, {<<"search_in_excel", src.name>>}, {})
    ELSE LET stop  == FirstFault(src.parts, Indices(src.parts))
             cells == {i \in 1..(stop - 1) : src.parts[i].kind = "text"}
             all   == Join({Res(search_in_text(src.parts[i].text, keywords), {}, {}) :
                                i \in cells})
         IN  Res(all.found, {<<"search_in_excel", src.name>>},
                 ErrorIf(stop <= Len(src.parts), src.name))

\* bytes 0x80..0xFF of the model: 0xE3 opens a three-byte UTF-8 sequence and
\* is a letter of its own in the single-byte encodings
HighBytes == {"xE3"}

\* bytes.decode('utf-8', errors='ignore'): an ASCII byte is its character; a
\* lead byte that its continuation bytes do not follow is dropped
RECURSIVE DecodeUtf8Ignore(_)
DecodeUtf8Ignore(bytes) ==
    IF bytes = <<>> THEN <<>>
    ELSE IF Head(bytes) \in HighBytes THEN DecodeUtf8Ignore(Tail(bytes))
    ELSE <<Head(bytes)>> \o DecodeUtf8Ignore(Tail(bytes))

\* the text of a plain-text source, as open(..., encoding='utf-8',
\* errors='ignore').read() and read().decode('utf-8', errors='ignore') give
\* it: decoded text parts as they are, raw bytes through the lenient decoder
SourceText(src) ==
    IF Len(src.parts) >= 1 /\ src.parts[1].kind = "text" THEN src.parts[1].text
    ELSE IF Len(src.parts) >= 1 /\ src.parts[1].kind = "bytes"
    THEN DecodeUtf8Ignore(src.parts[1].bytes)
    ELSE <<>>

\* the body of the entry loop of search_in_archive, for one selected entry
ArchiveEntry(entry, config, keywords) ==
    LET file  == entry.name
        lower == Lower(file)
    IN  IF EndsWithAny(lower, ArchiveTextSuffixes)
        THEN Res(search_in_text(SourceText(entry), keywords),
                 {<<"search_in_text", file>>}, {})
        ELSE IF EndsWithAny(lower, ImageSuffixes)
        THEN search_in_image(IF Len(entry.parts) >= 1 THEN entry.parts[1]
                             ELSE [kind |-> "none", fault |-> "ocr"],
                             file, config, keywords)
        ELSE IF EndsWith(lower, DOT_PDF) /\ ConfigGet(config, "has_pdf")
        THEN search_in_pdf(entry, config, keywords)
        ELSE IF EndsWith(lower, DOT_DOCX) /\ ConfigGet(config, "has_docx")
        THEN search_in_docx(entry, config, keywords)
        ELSE IF EndsWithAny(lower, ExcelSuffixes) /\ ConfigGet(config, "has_excel")
        THEN search_in_excel(entry, keywords)
        ELSE NoRes

ArchiveSkipEntries(src, extensions, config, keywords) == NoRes

\* the zip and rar branches: entries are opened one by one
ArchiveByEntry(src, extensions, config, keywords) ==
    LET selected == {i \in Indices(src.parts) :
                         /\ src.parts[i].kind = "entry"
                         /\ MatchesAny(src.parts[i].file.name, extensions)}
        stop == FirstFault(src.parts, selected)
        all  == Join({ArchiveEntry(src.parts[i].file, config, keywords) :
                          i \in {j \in selected : j < stop}})
        extracted == {i \in selected :
                         /\ i <= stop
                         /\ ~EndsWithAny(Lower(src.parts[i].file.name), ArchiveTextSuffixes)}
        temp == UNION {TempDir(src.parts[i].file.name, i = stop) : i \in extracted}
    IN  Res(all.found, all.calls \cup temp,
            all.logs \cup ErrorIf(stop <= Len(src.parts), src.name))

\* the 7z branch: extractall first, then a walk of what was extracted
ArchiveExtractAll(src, extensions, config, keywords) ==
    LET selected == {i \in Indices(src.parts) :
                         /\ src.parts[i].kind = "entry"
                         /\ MatchesAny(src.parts[i].file.name, extensions)}
        stop == FirstFault(src.parts, Indices(src.parts))
        all  == Join({ArchiveEntry(src.parts[i].file, config, keywords) : i \in selected})
    IN  IF stop <= Len(src.parts)
        THEN Res({}, TempDir(src.name, TRUE), {<<"error", src.name>>})
        ELSE Res(all.found, all.calls \cup TempDir(src.name, FALSE), all.logs)

search_in_archive(src, archive_path, extensions, config, keywords) ==
    LET r == IF EndsWith(archive_path, DOT_ZIP) \/ EndsWith(archive_path, DOT_RAR)
             THEN ArchiveByEntry(src, extensions, config, keywords)
             ELSE IF EndsWith(archive_path, DOT_7Z)
             THEN ArchiveExtractAll(src, extensions, config, keywords)
             ELSE NoRes
    IN  Res(r.found, r.calls \cup {<<"search_in_archive", src.name>>}, r.logs)

(***************************************************************************)
(* file_processing.py: process_file.  It returns a dict, modelled as a     *)
(* function from paths to keyword sets; here with the calls and the log    *)
(* records of the call.                                                    *)
(***************************************************************************)
EmptyDict == <<>>

Dict(path, kws) == [p \in {path} |-> kws]

FilePath(file) == PathJoin(file.dir, file.name)

\* the dispatch of process_file on the lower-cased extension
Dispatch(file, file_path, ext, extensions, config, keywords) ==
    IF ext \in ImageSuffixes
    THEN IF ConfigGet(config, "has_ocr")
         THEN search_in_image(IF Len(file.parts) >= 1 THEN file.parts[1]
                              ELSE [kind |-> "none", fault |-> "ocr"],
                              file.name, config, keywords)
         ELSE Res({}, {}, {<<"info", file.name>>})
    ELSE IF ext = DOT_PDF
    THEN IF ConfigGet(config, "has_pdf") THEN search_in_pdf(file, config, keywords)
         ELSE Res({}, {}, {<<"info", file.name>>})
    ELSE IF ext = DOT_DOCX
    THEN IF ConfigGet(config, "has_docx") THEN search_in_docx(file, config, keywords)
         ELSE Res({}, {}, {<<"info", file.name>>})
    ELSE IF ext \in ExcelSuffixes
    THEN IF ConfigGet(config, "has_excel") THEN search_in_excel(file, keywords)
         ELSE Res({}, {}, {<<"info", file.name>>})
    ELSE IF ext \in ArchiveSuffixes
    THEN IF ext = DOT_7Z /\ ~ConfigGet(config, "has_7z")
         THEN Res({}, {}, {<<"info", file.name>>})
         ELSE IF ext = DOT_RAR /\ ~ConfigGet(config, "has_rar")
         THEN Res({}, {}, {<<"info", file.name>>})
         ELSE search_in_archive(file, file_path, extensions, config, keywords)
    ELSE \* plain text: open(...).read(); an I/O error reaches the outer handler
         IF Len(file.parts) >= 1 /\ file.parts[1].fault = "container"
         THEN Res({}, {}, {<<"error", file.name>>})
         ELSE Res(search_in_text(SourceText(file), keywords),
                  {<<"search_in_text", file.name>>}, {})

NeverTooLarge(file, max_file_size) == FALSE

\* the size check of process_file: size in MB against max_file_size (MB)
TooLarge(file, max_file_size) == file.size > max_file_size * BytesPerMB

Out(ret, r) == [ret |-> ret, calls |-> r.calls, logs |-> r.logs]

ReturnedAlways(file_path, matched) == Dict(file_path, matched)

\* return {file_path: found} if found else {}
Returned(file_path, matched) ==
    IF matched # {} THEN Dict(file_path, matched) ELSE EmptyDict

process_file(file, extensions, max_file_size, config, keywords) ==
    LET file_path == FilePath(file)
        ext       == Lower(SplitExt(file_path))
    IN  IF TooLarge(file, max_file_size)
        THEN Out(EmptyDict, Res({}, {}, {<<"warning", file.name>>}))
        ELSE IF ~MatchesAny(file_path, extensions)
        THEN Out(EmptyDict, NoRes)
        ELSE LET r == Dispatch(file, file_path, ext, extensions, config, keywords)
             IN  Out(Returned(file_path, r.found), r)

(***************************************************************************)
(* The keyword matcher alone: any keyword source, any text.                *)
(***************************************************************************)
TextAlphabet == {"u", "U", "g"}

LineAlphabet == {"u", "U", " "}

Texts == StringsUpTo(TextAlphabet, MaxTextLen)

Lines == StringsUpTo(LineAlphabet, MaxTextLen - 1)

KeywordSources == {<<a, b>> : a \in Lines, b \in Lines}

\* no call of search_in_text observed
TextIdle ==
    /\ text = <<>>
    /\ found = {}
    /\ called = FALSE

\* no call of process_file observed
FileIdle ==
    /\ pf_in = "none"
    /\ pf_out = "none"
    /\ pf_done = FALSE

\* main() has not run; the files it looks for exist
IdleCli ==
    [pc |-> "ready", config_exists |-> TRUE, keywords_exists |-> TRUE,
     directory_exists |-> TRUE, searched |-> FALSE]

\* no entry point has run; the keyword source is readable in every encoding
\* a machine without optional libraries, whose callback never raises
IdleHost == [installed |-> {}, callback_fails |-> FALSE, search_images |-> FALSE]

EntryIdle ==
    /\ keywords_raises = {}
    /\ load_result = NotCalled
    /\ reports = {}
    /\ cli = IdleCli
    /\ host = IdleHost

\* the scans a behaviour may start, and the run_search threads of a state
ScanIds == 1..MaxScans

Scans == DOMAIN scan

\* a run_search thread that has not been started
IdleScan ==
    [pc |-> "unborn", extensions |-> <<>>, idx |-> 1, root |-> <<>>, files |-> <<>>,
     fut |-> <<>>, res |-> <<>>, start_count |-> 0, i |-> 0, results |-> <<>>,
     max_workers |-> 1, max_file_size |-> 1, config |-> {}, complete |-> FALSE,
     callback |-> TRUE, logs |-> {}, seen |-> {}, late |-> FALSE,
     request |-> [roots |-> <<>>, workers |-> 1, size |-> 1]]

\* no scan requested, no run_search thread started
ScanIdle ==
    /\ disk = <<>>
    /\ directories_list = <<>>
    /\ selected_extensions = <<>>
    /\ threads_var = 1
    /\ max_size_var = 1
    /\ gui_config = {}
    /\ edits = 0
    /\ is_searching = FALSE
    /\ total_files = 0
    /\ processed_files = 0
    /\ after_queue = <<>>
    /\ scan = [s \in ScanIds |-> IdleScan]
    /\ output = <<>>
    /\ events = <<>>
    /\ passes = <<>>
    /\ started = [s \in ScanIds |-> 0]
    /\ stopped_at = [s \in ScanIds |-> -1]

InitText ==
    /\ KEYWORDS_LOWER = {}
    /\ keywords_file \in KeywordSources
    /\ TextIdle
    /\ EntryIdle
    /\ FileIdle
    /\ ScanIdle

load_keywords ==
    LET outcome == LoadKeywordsOutcome(keywords_file, keywords_raises)
    IN  /\ load_result' = outcome
        /\ KEYWORDS_LOWER' = IF outcome.raised = "none"
                             THEN LoadedKeywords(keywords_file)
                             ELSE KEYWORDS_LOWER
        /\ text' = <<>>
        /\ found' = {}
        /\ called' = FALSE
        /\ UNCHANGED <<keywords_file, keywords_raises, reports, cli, host, fileVars,
                       requestVars, guiVars, scanVars>>

CallSearchInText ==
    \E t \in Texts :
        /\ ~called
        /\ text' = t
        /\ found' = search_in_text(t, KEYWORDS_LOWER)
        /\ called' = TRUE
        /\ UNCHANGED <<KEYWORDS_LOWER, keywords_file, entryVars, fileVars, requestVars,
                       guiVars, scanVars>>

NextText == load_keywords \/ CallSearchInText

SpecText == InitText /\ [][NextText]_vars

(***************************************************************************)
(* load_keywords alone: any keyword source, decodable or not.              *)
(***************************************************************************)
\* iso-8859-1 decodes every byte sequence, the other encodings may fail
RaisingSets == SUBSET {"utf-8", "cp1251", "utf-8-sig"}

InitKeywords ==
    /\ KEYWORDS_LOWER = {}
    /\ keywords_file \in KeywordSources
    /\ TextIdle
    /\ keywords_raises \in RaisingSets
    /\ host = IdleHost
    /\ load_result = NotCalled
    /\ reports = {}
    /\ cli = IdleCli
    /\ FileIdle
    /\ ScanIdle

NextKeywords == load_result = NotCalled /\ load_keywords

SpecKeywords == InitKeywords /\ [][NextKeywords]_vars

\* C18: load_keywords fails with an empty-input error, distinct from the decode
\* error, when the source decodes but has no non-blank line, and with the
\* decode error only when no supported encoding decodes the source.
C18_DistinctErrors ==
    load_result # NotCalled =>
        LET decodable == \E i \in 1..Len(Encodings) : Encodings[i] \notin keywords_raises
            blank     == \A i \in 1..Len(keywords_file) : Strip(keywords_file[i]) = <<>>
        IN  /\ decodable /\ blank
                => load_result.raised # "none" /\ load_result.message # "could not decode"
            /\ load_result.message = "could not decode" => ~decodable

\* a keyword occurs in a text when the text is some prefix, the keyword, some suffix
Occurs(k, t) ==
    \E a \in 0..Len(t), b \in 0..Len(t) :
        /\ a + Len(k) = b
        /\ SubSeq(t, a + 1, b) = k

\* C1: search_in_text returns a subset of the loaded keyword set, a keyword is
\* in the result exactly when its lower-cased form occurs in the lower-cased
\* text, and the result for the empty text is empty.
C1_ContainsAny ==
    called =>
        /\ found \subseteq KEYWORDS_LOWER
        /\ \A k \in KEYWORDS_LOWER : (k \in found) <=> Occurs(Lower(k), Lower(text))
        /\ (text = <<>> => found = {})

C1_Witness ==
    /\ called
    /\ Cardinality(KEYWORDS_LOWER) = 2
    /\ \E k \in KEYWORDS_LOWER : k \in found
    /\ \E k \in KEYWORDS_LOWER : k \notin found
    /\ text # Lower(text)

(***************************************************************************)
(* process_file alone: one call on any file of a bounded family, under any *)
(* request.                                                                *)
(***************************************************************************)
TextPart(t, fault) == [kind |-> "text", text |-> t, fault |-> fault]

ImagePart(t, fault) == [kind |-> "image", text |-> t, fault |-> fault]

EntryPart(file, fault) == [kind |-> "entry", file |-> file, fault |-> fault]

Source(name, size, parts) == [name |-> name, size |-> size, parts |-> parts]

DiskFile(dir, name, size, parts, hangs) ==
    [dir |-> dir, name |-> name, size |-> size, parts |-> parts, hangs |-> hangs]

\* all sequences over a set, up to a length
RECURSIVE SeqsUpTo(_, _)
SeqsUpTo(S, n) ==
    IF n = 0 THEN {<<>>}
    ELSE LET shorter == SeqsUpTo(S, n - 1)
         IN  shorter \cup {Append(q, x) : q \in shorter, x \in S}

DocParts ==
    { TextPart(<<"U", "g">>, "none"), TextPart(<<"g">>, "container"),
      ImagePart(<<"u">>, "none"), ImagePart(<<"u">>, "ocr"),
      ImagePart(<<"g">>, "container") }

EntryParts ==
    { EntryPart(Source(<<"d">> \o DOT_TXT, 1, <<TextPart(<<"u", "g">>, "none")>>), "none"),
      EntryPart(Source(<<"e">> \o DOT_TXT, 1, <<TextPart(<<"g">>, "none")>>), "container"),
      EntryPart(Source(<<"i">> \o DOT_PNG, 1, <<ImagePart(<<"u">>, "none")>>), "none"),
      EntryPart(Source(<<"p">> \o DOT_PDF, 1, <<TextPart(<<"g">>, "none")>>), "none"),
      EntryPart(Source(<<"b">> \o DOT_TXT, BytesPerMB + 1, <<TextPart(<<"u">>, "none")>>),
                "none"),
      EntryPart(Source(<<"j">> \o DOT_PNG, 1, <<ImagePart(<<"u">>, "none")>>), "container"),
      EntryPart(Source(<<"m", ".", "m", "d">>, 1, <<TextPart(<<"u">>, "none")>>), "none"),
      EntryPart(Source(<<"z">> \o DOT_ZIP, 1,
                       <<EntryPart(Source(<<"d">> \o DOT_TXT, 1,
                                          <<TextPart(<<"u">>, "none")>>), "none")>>),
                "none") }

PfNames ==
    { <<"a">> \o e : e \in {DOT_TXT, <<".", "m", "d">>, DOT_PNG, DOT_PDF,
                            <<".", "P", "D", "F">>, DOT_DOCX, DOT_XLSX, DOT_XLS,
                            DOT_ZIP, <<".", "Z", "I", "P">>, DOT_7Z, DOT_RAR} }

PfContents(name) ==
    IF Lower(SplitExt(name)) \in ArchiveSuffixes
    THEN SeqsUpTo(EntryParts, MaxParts)
    ELSE SeqsUpTo(DocParts, MaxParts)

PfSizes == {BytesPerMB - 1, BytesPerMB, BytesPerMB + 1}

PfFiles ==
    UNION { { DiskFile(<<"A">>, name, size, parts, FALSE) :
                  size \in PfSizes, parts \in PfContents(name) } : name \in PfNames }

PfConfigs ==
    {{}, Capabilities} \cup {{c} : c \in Capabilities}
        \cup {Capabilities \ {c} : c \in Capabilities}

PfExtensions ==
    { <<<<"*">>>>,
      <<<<"*">> \o DOT_TXT, <<"*">> \o DOT_ZIP, <<"*">> \o DOT_PDF>>,
      <<<<"a", ".", "*">>>> }

InitFile ==
    /\ KEYWORDS_LOWER = {<<"u">>, <<"u", "g">>}
    /\ keywords_file = <<<<"u">>, <<"U", "g">>>>
    /\ TextIdle
    /\ EntryIdle
    /\ pf_in \in [file : PfFiles, extensions : PfExtensions,
                  max_file_size : {1}, config : PfConfigs]
    /\ pf_out = "none"
    /\ pf_done = FALSE
    /\ ScanIdle

CallProcessFile ==
    /\ ~pf_done
    /\ pf_done' = TRUE
    /\ pf_out' = process_file(pf_in.file, pf_in.extensions, pf_in.max_file_size,
                              pf_in.config, KEYWORDS_LOWER)
    /\ UNCHANGED <<KEYWORDS_LOWER, textVars, entryVars, pf_in, requestVars, guiVars,
                   scanVars>>

NextFile == CallProcessFile

SpecFile == InitFile /\ [][NextFile]_vars

\* the log records of a level
LogsAt(out, level) == {l \in out.logs : l[1] = level}

\* C8: a file larger than the configured maximum reaches no extractor;
\* process_file returns no match for it and logs no error (a warning only).
C8_SizeGate ==
    (pf_done /\ pf_in.file.size > pf_in.max_file_size * BytesPerMB) =>
        /\ pf_out.calls = {}
        /\ pf_out.ret = EmptyDict
        /\ LogsAt(pf_out, "error") = {}
        /\ LogsAt(pf_out, "warning") # {}

\* an oversized text file that matches a pattern and holds a keyword
C8_Witness ==
    /\ pf_done
    /\ pf_in.file.size = pf_in.max_file_size * BytesPerMB + 1
    /\ MatchesAny(FilePath(pf_in.file), pf_in.extensions)
    /\ SplitExt(pf_in.file.name) = DOT_TXT
    /\ search_in_text(SourceText(pf_in.file), KEYWORDS_LOWER) # {}
    /\ pf_out.ret = EmptyDict

\* the capability a lower-cased extension needs, "none" when it needs none
CapabilityOf(ext) ==
    IF ext \in ImageSuffixes THEN "has_ocr"
    ELSE IF ext = DOT_PDF THEN "has_pdf"
    ELSE IF ext = DOT_DOCX THEN "has_docx"
    ELSE IF ext \in ExcelSuffixes THEN "has_excel"
    ELSE IF ext = DOT_7Z THEN "has_7z"
    ELSE IF ext = DOT_RAR THEN "has_rar"
    ELSE "none"

PfCapability == CapabilityOf(Lower(SplitExt(pf_in.file.name)))

\* C9: for a file whose extension needs a capability the request does not
\* enable, process_file invokes no extractor, logs no error and returns no match.
C9_CapabilityGate ==
    (pf_done /\ PfCapability # "none" /\ PfCapability \notin pf_in.config) =>
        /\ pf_out.calls = {}
        /\ LogsAt(pf_out, "error") = {}
        /\ pf_out.ret = EmptyDict

\* a PDF with a matching page, within the size limit and the patterns, PDF disabled
C9_Witness ==
    /\ pf_done
    /\ PfCapability = "has_pdf"
    /\ "has_pdf" \notin pf_in.config
    /\ "has_ocr" \in pf_in.config
    /\ pf_in.file.size <= pf_in.max_file_size * BytesPerMB
    /\ MatchesAny(FilePath(pf_in.file), pf_in.extensions)
    /\ search_in_pdf(pf_in.file, Capabilities, KEYWORDS_LOWER).found # {}
    /\ pf_out.ret = EmptyDict
    /\ LogsAt(pf_out, "info") # {}

(***************************************************************************)
(* process_file alone, on plain-text files of raw bytes.                   *)
(***************************************************************************)
BytesPart(bytes) == [kind |-> "bytes", bytes |-> bytes, fault |-> "none"]

ByteAlphabet == {"u", "g"} \cup HighBytes

ByteStrings == StringsUpTo(ByteAlphabet, MaxTextLen)

\* the keyword sets of the runs: U+0433 (0xE3 in cp1251), U+00E3 (0xE3 in
\* iso-8859-1), or an ASCII keyword
EncodingKeywords == { {<<"U+0433">>}, {<<"U+00E3">>}, {<<"u", "g">>} }

PlainNames == { <<"a">> \o DOT_TXT, <<"a", ".", "m", "d">> }

InitEncoding ==
    /\ KEYWORDS_LOWER \in EncodingKeywords
    /\ keywords_file = <<>>
    /\ TextIdle
    /\ EntryIdle
    /\ pf_in \in [file : {DiskFile(<<"A">>, name, 1, <<BytesPart(b)>>, FALSE) :
                              name \in PlainNames, b \in ByteStrings},
                  extensions : {<<<<"*">>>>},
                  max_file_size : {1}, config : {{}}]
    /\ pf_out = "none"
    /\ pf_done = FALSE
    /\ ScanIdle

SpecEncoding == InitEncoding /\ [][NextFile]_vars

(***************************************************************************)
(* search_engine.py and guiV4.py: a scan.                                  *)
(*                                                                         *)
(* start_search (main thread) starts a run_search thread; the thread calls *)
(* search_files for each entry of directories_list; search_files lists the *)
(* root, submits every listed file to a pool of max_workers workers and    *)
(* handles the futures as they complete.  Progress callbacks are queued    *)
(* with root.after and run later in the main loop.                         *)
(***************************************************************************)
\* whether os.walk(root) visits directory dir
IsUnder(dir, root) ==
    \/ dir = root
    \/ /\ Len(dir) > Len(root)
       /\ SubSeq(dir, 1, Len(root) + 1) = root \o <<"/">>

WalkRaisesOnMissing(root_dir) == \A k \in 1..Len(disk) : ~IsUnder(disk[k].dir, root_dir)

\* os.walk(root_dir) is called without onerror: a root that is missing or
\* cannot be listed raises nothing and yields no directory
WalkRaises(root_dir) == FALSE

EnumerateAll(root_dir, extensions) ==
    LET Listed(k) == IsUnder(disk[k].dir, root_dir)
    IN  SelectSeq([k \in 1..Len(disk) |-> k], Listed)

\* files_to_process of search_files, as indices into the disk
Enumerate(root_dir, extensions) ==
    LET Listed(k) == /\ IsUnder(disk[k].dir, root_dir)
                     /\ MatchesAny(disk[k].name, extensions)
    IN  SelectSeq([k \in 1..Len(disk) |-> k], Listed)

\* SearchApp.count_files_to_process
count_files_to_process(directory, extensions) == Len(Enumerate(directory, extensions))

RECURSIVE TotalFiles(_, _)
TotalFiles(dirs, extensions) ==
    IF dirs = <<>> THEN 0
    ELSE count_files_to_process(Head(dirs), extensions) + TotalFiles(Tail(dirs), extensions)

DictReplace(d, r) == r

DictKeepFirst(d, r) == IF DOMAIN d = {} THEN r ELSE d

\* dict.update
DictUpdate(d, r) ==
    [p \in DOMAIN d \cup DOMAIN r |-> IF p \in DOMAIN r THEN r[p] ELSE d[p]]

\* the blocks search_files writes for one result
Blocks(s, result) ==
    IF DOMAIN result = {} THEN <<>>
    ELSE LET path == CHOOSE p \in DOMAIN result : TRUE
         IN  <<[scan |-> s, path |-> path, keywords |-> result[path]]>>

NoFlush(destination, written) == destination

\* output_handle.write(...) followed by output_handle.flush(): what was
\* written is in the destination
Flush(destination, written) == destination \o written

Alive(s) == scan[s].pc \in {"start", "loop", "pool"}

\* an entry point reports an error to the user and returns
Refuse(message) ==
    /\ reports' = reports \cup {message}
    /\ UNCHANGED <<KEYWORDS_LOWER, load_result, is_searching, scan, gui_config>>

start_search ==
    /\ ~is_searching
    /\ \E s \in Scans :
        /\ scan[s].pc = "unborn"
        /\ \A t \in 1..(s - 1) : scan[t].pc # "unborn"
        /\ IF selected_extensions = <<>>
           THEN Refuse("no extensions") /\ UNCHANGED <<total_files, processed_files>>
           ELSE IF KeywordLines(keywords_file) = {}
           THEN Refuse("no keywords") /\ UNCHANGED <<total_files, processed_files>>
           ELSE IF directories_list = <<>>
           THEN Refuse("no directories") /\ UNCHANGED <<total_files, processed_files>>
           ELSE LET total   == TotalFiles(directories_list, selected_extensions)
                    outcome == LoadKeywordsOutcome(keywords_file, keywords_raises)
                IN  /\ total_files' = total
                    /\ processed_files' = 0
                    /\ IF total = 0
                       THEN Refuse("no files")
                       ELSE IF outcome.raised # "none"
                       THEN /\ gui_config' = host.installed
                            /\ reports' = reports \cup {outcome.message}
                            /\ load_result' = outcome
                            /\ UNCHANGED <<KEYWORDS_LOWER, is_searching, scan>>
                       ELSE /\ gui_config' = host.installed
                            /\ KEYWORDS_LOWER' = LoadedKeywords(keywords_file)
                            /\ load_result' = outcome
                            /\ is_searching' = TRUE
                            /\ scan' = [scan EXCEPT ![s] =
                                   [IdleScan EXCEPT
                                        !.pc = "start",
                                        !.extensions = selected_extensions,
                                        !.request = [roots |-> directories_list,
                                                     workers |-> threads_var,
                                                     size |-> max_size_var]]]
                            /\ UNCHANGED reports
    /\ UNCHANGED <<textVars, keywords_raises, cli, host, fileVars, disk, directories_list,
                   selected_extensions, threads_var, max_size_var, edits, after_queue,
                   output, events, passes, started, stopped_at>>

stop_search ==
    /\ is_searching
    /\ is_searching' = FALSE
    /\ stopped_at' = [s \in Scans |->
                         IF Alive(s) /\ stopped_at[s] = -1 THEN started[s]
                         ELSE stopped_at[s]]
    /\ UNCHANGED <<KEYWORDS_LOWER, textVars, entryVars, fileVars, requestVars, total_files,
                   processed_files, after_queue, scan, output, events, passes, started>>

\* the main loop runs one queued _update_progress_in_main_thread
main_loop ==
    /\ after_queue # <<>>
    /\ processed_files' = Head(after_queue)
    /\ after_queue' = Tail(after_queue)
    /\ UNCHANGED <<KEYWORDS_LOWER, textVars, entryVars, fileVars, requestVars, is_searching,
                   total_files, scanVars>>

\* run_search up to its loop
run_search_begin(s) ==
    /\ scan[s].pc = "start"
    /\ processed_files' = 0
    /\ scan' = [scan EXCEPT ![s].pc = "loop"]
    /\ UNCHANGED <<KEYWORDS_LOWER, textVars, entryVars, fileVars, requestVars, is_searching,
                   total_files, after_queue, output, events, passes, started, stopped_at>>

\* the loop of run_search reaches a root and calls search_files, which lists
\* the root and submits every listed file
search_files_begin(s) ==
    /\ scan[s].pc = "loop"
    /\ scan[s].idx <= Len(directories_list)
    /\ is_searching
    /\ LET root_dir == directories_list[scan[s].idx]
           files_to_process == Enumerate(root_dir, scan[s].extensions)
       IN  IF WalkRaises(root_dir)
           THEN \* the exception ends run_search: except Exception, then finally
                /\ scan' = [scan EXCEPT ![s].pc = "done"]
                /\ is_searching' = FALSE
           ELSE /\ scan' = [scan EXCEPT ![s] =
                       [@ EXCEPT !.pc = "pool",
                                 !.root = root_dir,
                                 !.files = files_to_process,
                                 !.fut = [k \in 1..Len(files_to_process) |-> "pending"],
                                 !.res = [k \in 1..Len(files_to_process) |-> EmptyDict],
                                 !.start_count = processed_files,
                                 !.i = 0,
                                 !.results = EmptyDict,
                                 !.logs = {},
                                 !.late = (stopped_at[s] # -1),
                                 !.max_workers = threads_var,
                                 !.max_file_size = max_size_var,
                                 !.config = gui_config]]
                /\ UNCHANGED is_searching
    /\ UNCHANGED <<KEYWORDS_LOWER, textVars, entryVars, fileVars, requestVars, total_files,
                   processed_files, after_queue, output, events, passes, started, stopped_at>>

Running(s) == {k \in 1..Len(scan[s].fut) : scan[s].fut[k] = "running"}

Pending(s) == {k \in 1..Len(scan[s].fut) : scan[s].fut[k] = "pending"}

PoolAlwaysFree(s) == TRUE

\* ThreadPoolExecutor(max_workers): a queued file is taken only by a worker
\* thread that is not inside process_file
PoolHasFreeWorker(s) == Cardinality(Running(s)) < scan[s].max_workers

\* a free worker of the pool takes the oldest submitted file
worker_start(s) ==
    /\ scan[s].pc = "pool"
    /\ Pending(s) # {}
    /\ PoolHasFreeWorker(s)
    /\ LET k == CHOOSE j \in Pending(s) : \A m \in Pending(s) : j <= m
       IN  scan' = [scan EXCEPT ![s].fut[k] = "running"]
    /\ started' = [started EXCEPT ![s] = @ + 1]
    /\ UNCHANGED <<KEYWORDS_LOWER, textVars, entryVars, fileVars, requestVars, guiVars, output,
                   events, passes, stopped_at>>

\* process_file returns in a worker; it never does for a file that hangs
worker_finish(s) ==
    \E k \in Running(s) :
        /\ scan[s].pc = "pool"
        /\ ~disk[scan[s].files[k]].hangs
        /\ LET returned == process_file(disk[scan[s].files[k]], scan[s].extensions,
                                        scan[s].max_file_size, scan[s].config,
                                        KEYWORDS_LOWER)
           IN  scan' = [scan EXCEPT
                          ![s].fut[k] = "done",
                          ![s].res[k] = returned.ret,
                          ![s].logs = @ \cup returned.logs,
                          ![s].seen = @ \cup {KEYWORDS_LOWER}]
        /\ UNCHANGED <<KEYWORDS_LOWER, textVars, entryVars, fileVars, requestVars, guiVars, output,
                       events, passes, started, stopped_at>>

RecordResultUnlessRaised(results, result, raised) ==
    IF raised \/ result = EmptyDict THEN results ELSE DictUpdate(results, result)

\* the result of a future goes into the results map when it is not empty,
\* whether or not the callback raised just before: the callback has its own
\* try/except
RecordResult(results, result, raised) ==
    IF result # EmptyDict THEN DictUpdate(results, result) ELSE results

\* whether a call of progress_callback raises (caught and logged by search_files)
CallbackOutcomes == IF host.callback_fails THEN BOOLEAN ELSE {FALSE}

\* one iteration of the as_completed loop of search_files
as_completed_next(s) ==
    \E k \in 1..Len(scan[s].fut), raised \in CallbackOutcomes :
        /\ scan[s].pc = "pool"
        /\ scan[s].fut[k] = "done"
        /\ LET total_processed == scan[s].start_count + scan[s].i + 1
               result == scan[s].res[k]
           IN  /\ IF scan[s].callback
                  THEN /\ after_queue' = IF raised THEN after_queue
                                         ELSE Append(after_queue, total_processed)
                       /\ events' = Append(events, [scan |-> s, idx |-> scan[s].idx,
                                                    count |-> total_processed,
                                                    file |-> scan[s].files[k],
                                                    raised |-> raised])
                  ELSE /\ ~raised
                       /\ UNCHANGED <<after_queue, events>>
               /\ scan' = [scan EXCEPT
                             ![s].fut[k] = "yielded",
                             ![s].i = @ + 1,
                             ![s].results = RecordResult(@, result, raised)]
               /\ output' = Flush(output, Blocks(s, result))
        /\ UNCHANGED <<KEYWORDS_LOWER, textVars, entryVars, fileVars, requestVars, is_searching,
                       total_files, processed_files, passes, started, stopped_at>>

\* every future was handled: the pool shuts down, search_files returns and
\* run_search reports the results of the root
search_files_return(s) ==
    /\ scan[s].pc = "pool"
    /\ \A k \in 1..Len(scan[s].fut) : scan[s].fut[k] = "yielded"
    /\ passes' = Append(passes, [scan |-> s, idx |-> scan[s].idx, root |-> scan[s].root,
                                 start_count |-> scan[s].start_count,
                                 files |-> scan[s].files, res |-> scan[s].res,
                                 results |-> scan[s].results,
                                 logs |-> scan[s].logs, late |-> scan[s].late,
                                 max_workers |-> scan[s].max_workers,
                                 max_file_size |-> scan[s].max_file_size])
    /\ scan' = [scan EXCEPT ![s].pc = IF scan[s].callback THEN "loop" ELSE "done",
                            ![s].idx = @ + 1]
    /\ UNCHANGED <<KEYWORDS_LOWER, textVars, entryVars, fileVars, requestVars, guiVars, output,
                   events, started, stopped_at>>

\* the loop of run_search ends (no root left, or is_searching cleared) and
\* the finally clause clears is_searching
run_search_exit(s) ==
    /\ scan[s].pc = "loop"
    /\ scan[s].idx > Len(directories_list) \/ ~is_searching
    /\ is_searching' = FALSE
    /\ scan' = [scan EXCEPT ![s].pc = "done", ![s].complete = is_searching]
    /\ UNCHANGED <<KEYWORDS_LOWER, textVars, entryVars, fileVars, requestVars, total_files,
                   processed_files, after_queue, output, events, passes, started,
                   stopped_at>>

\* the steps of one run_search thread and of the pool's bookkeeping
SchedulerStep(s) ==
    \/ run_search_begin(s)
    \/ search_files_begin(s)
    \/ worker_start(s)
    \/ as_completed_next(s)
    \/ search_files_return(s)
    \/ run_search_exit(s)

\* the enabling condition of worker_finish
CanFinish(s) ==
    /\ scan[s].pc = "pool"
    /\ \E k \in Running(s) : ~disk[scan[s].files[k]].hangs

(***************************************************************************)
(* The scans of the GUI over a small disk.                                 *)
(***************************************************************************)
DirA == <<"A">>

DirB == <<"B">>

\* a root that does not exist: no file of the disk is under it
DirN == <<"N">>

Healthy(dir, name, t) == DiskFile(dir, name, 1, <<TextPart(t, "none")>>, FALSE)

\* the second file of directory A, by variant
SecondFile ==
    { Healthy(DirA, <<"b">> \o DOT_TXT, <<"g">>),
      DiskFile(DirA, <<"b">> \o DOT_TXT, 1, <<TextPart(<<"u">>, "container")>>, FALSE),
      DiskFile(DirA, <<"b">> \o DOT_TXT, 1, <<TextPart(<<"u">>, "none")>>, TRUE),
      DiskFile(DirA, <<"c">> \o DOT_ZIP, 1,
               <<EntryPart(Source(<<"d">> \o DOT_TXT, 1, <<TextPart(<<"u", "g">>, "none")>>),
                           "none")>>, FALSE),
      DiskFile(DirA, <<"c">> \o DOT_ZIP, 1,
               <<EntryPart(Source(<<"e">> \o DOT_TXT, 1, <<TextPart(<<"g">>, "none")>>),
                           "container"),
                 EntryPart(Source(<<"d">> \o DOT_TXT, 1, <<TextPart(<<"u", "g">>, "none")>>),
                           "none")>>, FALSE),
      DiskFile(DirA, <<"p">> \o DOT_PDF, 1,
               <<TextPart(<<"U", "g">>, "none"), TextPart(<<"u">>, "container")>>, FALSE),
      DiskFile(DirA, <<"x">> \o DOT_PNG, 1, <<ImagePart(<<"u">>, "none")>>, FALSE),
      DiskFile(DirA, <<"b">> \o DOT_TXT, BytesPerMB + 1, <<TextPart(<<"u">>, "none")>>, FALSE) }

Disks ==
    { <<Healthy(DirA, <<"a">> \o DOT_TXT, <<"U", "g">>), second,
        Healthy(DirB, <<"c">> \o DOT_TXT, <<"u">>)>> : second \in SecondFile }

ExtensionLists ==
    { <<<<"*">> \o DOT_TXT>>,
      <<<<"*">> \o DOT_TXT, <<"*">> \o DOT_ZIP, <<"*">> \o DOT_PDF, <<"*">> \o DOT_PNG>>,
      <<<<"a", ".", "*">>>> }

\* the text of the keywords box: two keywords, or blank lines only
KeywordTexts == { <<<<"u">>, <<"U", "g">>>>, <<<<" ">>, <<>>>> }

\* what check_dependencies may find: every optional library, or none;
\* config.txt has search_images on, so load_config keeps every pattern
Hosts ==
    {[installed |-> c, callback_fails |-> FALSE, search_images |-> TRUE] :
        c \in {Capabilities, {}}}

Init ==
    /\ KEYWORDS_LOWER = {}
    /\ keywords_file \in KeywordTexts
    /\ TextIdle
    /\ keywords_raises = {}
    /\ load_result = NotCalled
    /\ reports = {}
    /\ cli = IdleCli
    /\ host \in Hosts
    /\ FileIdle
    /\ disk \in Disks
    /\ directories_list \in SeqsUpTo({DirA, DirB, DirN}, MaxRoots)
    /\ selected_extensions \in ExtensionLists \cup {<<>>}
    /\ threads_var \in 1..MaxWorkers
    /\ max_size_var = 1
    /\ gui_config = {}
    /\ edits = 0
    /\ is_searching = FALSE
    /\ total_files = 0
    /\ processed_files = 0
    /\ after_queue = <<>>
    /\ scan = [s \in ScanIds |-> IdleScan]
    /\ output = <<>>
    /\ events = <<>>
    /\ passes = <<>>
    /\ started = [s \in ScanIds |-> 0]
    /\ stopped_at = [s \in ScanIds |-> -1]

Next ==
    \/ start_search
    \/ stop_search
    \/ main_loop
    \/ \E s \in Scans : run_search_begin(s)
    \/ \E s \in Scans : search_files_begin(s)
    \/ \E s \in Scans : worker_start(s)
    \/ \E s \in Scans : worker_finish(s)
    \/ \E s \in Scans : as_completed_next(s)
    \/ \E s \in Scans : search_files_return(s)
    \/ \E s \in Scans : run_search_exit(s)

Spec == Init /\ [][Next]_vars

\* every thread that can run eventually does: the run_search thread and its
\* pool are scheduled by the operating system, the main loop keeps running.
\* The last conjunct is weak fairness of worker_finish, written out with its
\* enabling condition: a process_file call that can return eventually does.
FairSpec ==
    /\ Spec
    /\ WF_vars(main_loop)
    /\ \A s \in ScanIds : WF_vars(SchedulerStep(s))
    /\ \A s \in ScanIds : []<>~CanFinish(s) \/ []<><<worker_finish(s)>>_vars

(***************************************************************************)
(* The command-line entry point, next to the window's.                     *)
(***************************************************************************)
MainErrorNoKeywordCheck(c, outcome) ==
    IF ~c.config_exists THEN "config.txt not found"
    ELSE IF ~c.keywords_exists THEN "keywords file not found"
    ELSE IF ~c.directory_exists THEN "directory does not exist"
    ELSE "none"

\* the error main() returns on, "none" when it goes on to search_files
MainError(c, outcome) ==
    IF ~c.config_exists THEN "config.txt not found"
    ELSE IF ~c.keywords_exists THEN "keywords file not found"
    ELSE IF ~c.directory_exists THEN "directory does not exist"
    ELSE IF outcome.raised # "none" THEN outcome.message
    ELSE IF outcome.keywords = {} THEN "no keywords found"
    ELSE "none"

\* the capability flags in the dict load_config returns, which main() passes
\* on as it is: load_config builds a fixed set of keys, no has_* key among them
LoadConfigFlags == {}

\* the extensions load_config returns: with search_images off the patterns
\* that end with an image suffix are removed
LoadConfigExtensions(extensions, search_images) ==
    IF search_images THEN extensions
    ELSE SelectSeq(extensions, LAMBDA ext : ~EndsWithAny(Lower(ext), ImageSuffixes))

\* main(): the checks, load_keywords, then search_files on the configured
\* directory up to the submission of every listed file
main ==
    /\ cli.pc = "ready"
    /\ \E s \in Scans :
        /\ scan[s].pc = "unborn"
        /\ \A t \in 1..(s - 1) : scan[t].pc # "unborn"
        /\ LET outcome == LoadKeywordsOutcome(keywords_file, keywords_raises)
               error   == MainError(cli, outcome)
               loaded  == cli.config_exists /\ cli.keywords_exists /\ cli.directory_exists
               root_dir == directories_list[1]
               extensions == LoadConfigExtensions(selected_extensions, host.search_images)
               files_to_process == Enumerate(root_dir, extensions)
           IN  /\ load_result' = IF loaded THEN outcome ELSE load_result
               /\ IF error # "none"
                  THEN /\ reports' = reports \cup {error}
                       /\ cli' = [cli EXCEPT !.pc = "done"]
                       /\ KEYWORDS_LOWER' = IF loaded /\ outcome.raised = "none"
                                            THEN LoadedKeywords(keywords_file)
                                            ELSE KEYWORDS_LOWER
                       /\ UNCHANGED scan
                  ELSE /\ KEYWORDS_LOWER' = LoadedKeywords(keywords_file)
                       /\ cli' = [cli EXCEPT !.pc = "done", !.searched = TRUE]
                       /\ scan' = [scan EXCEPT ![s] =
                              [IdleScan EXCEPT
                                  !.pc = "pool",
                                  !.extensions = extensions,
                                  !.root = root_dir,
                                  !.files = files_to_process,
                                  !.fut = [k \in 1..Len(files_to_process) |-> "pending"],
                                  !.res = [k \in 1..Len(files_to_process) |-> EmptyDict],
                                  !.max_workers = threads_var,
                                  !.max_file_size = max_size_var,
                                  !.config = LoadConfigFlags,
                                  !.callback = FALSE]]
                       /\ UNCHANGED reports
    /\ UNCHANGED <<textVars, keywords_raises, host, fileVars, requestVars, guiVars, output,
                   events, passes, started, stopped_at>>

\* what main() may find: config.txt, the keywords file and the directory
\* present or not
CliEnvironments ==
    { [IdleCli EXCEPT !.config_exists = c, !.keywords_exists = k, !.directory_exists = d] :
        c \in BOOLEAN, k \in BOOLEAN, d \in BOOLEAN }

InitMain ==
    /\ KEYWORDS_LOWER = {}
    /\ keywords_file \in KeywordTexts
    /\ TextIdle
    /\ keywords_raises \in {{}, {"utf-8"}}
    /\ load_result = NotCalled
    /\ reports = {}
    /\ cli \in CliEnvironments
    /\ host \in Hosts
    /\ FileIdle
    /\ disk \in Disks
    /\ directories_list \in {<<DirA>>, <<DirB>>}
    /\ selected_extensions \in ExtensionLists
    /\ threads_var \in 1..MaxWorkers
    /\ max_size_var = 1
    /\ gui_config = {}
    /\ edits = 0
    /\ is_searching = FALSE
    /\ total_files = 0
    /\ processed_files = 0
    /\ after_queue = <<>>
    /\ scan = [s \in ScanIds |-> IdleScan]
    /\ output = <<>>
    /\ events = <<>>
    /\ passes = <<>>
    /\ started = [s \in ScanIds |-> 0]
    /\ stopped_at = [s \in ScanIds |-> -1]

\* the program is entered through main() or through the window
NextMain ==
    \/ main
    \/ Next

SpecMain == InitMain /\ [][NextMain]_vars

\* the keyword source yields no keyword: it is empty, blank, or undecodable
EmptySource ==
    \/ KeywordLines(keywords_file) = {}
    \/ LoadKeywordsOutcome(keywords_file, keywords_raises).raised # "none"

\* C17: with a keyword source that is empty or cannot be decoded no scan ever
\* starts: no scan exists, search_files has run on no root, and each entry
\* point (main, start_search), when it runs, reports an error and returns.
C17_NoScanWithoutKeywords ==
    /\ [](EmptySource => /\ \A s \in Scans : scan[s].pc = "unborn"
                         /\ passes = <<>>
                         /\ ~cli.searched)
    /\ [][(EmptySource /\ (main \/ start_search)) => (reports' # {} /\ scan' = scan)]_vars

\* both entry points ran on a blank source and reported it
C17_Witness ==
    /\ EmptySource
    /\ cli.config_exists /\ cli.keywords_exists /\ cli.directory_exists
    /\ cli.pc = "done"
    /\ {"no keywords", "could not decode"} \subseteq reports

(***************************************************************************)
(* The user at the window.  In SpecWindow the user edits the request while *)
(* one scan runs, and a call of the progress callback may raise.  In       *)
(* SpecSession the user stops a scan and starts the next one while the     *)
(* stopped thread is still alive (stop_search does not join it), and may   *)
(* retype the keywords in between.                                         *)
(***************************************************************************)
\* the user changes the request: one more edit of the session
UserEdits ==
    /\ edits < MaxEdits
    /\ edits' = edits + 1

\* add_directory: the chosen directory is appended to the live list
add_directory ==
    /\ UserEdits
    /\ Len(directories_list) < MaxRoots
    /\ \E directory \in {DirA, DirB} :
           directories_list' = Append(directories_list, directory)
    /\ UNCHANGED <<KEYWORDS_LOWER, textVars, entryVars, fileVars, disk, selected_extensions,
                   threads_var, max_size_var, gui_config, guiVars, scanVars>>

\* remove_directory: del self.directories_list[index] for the selected row
remove_directory ==
    /\ UserEdits
    /\ \E index \in 1..Len(directories_list) :
           directories_list' = [n \in 1..(Len(directories_list) - 1) |->
                                   IF n < index THEN directories_list[n]
                                   ELSE directories_list[n + 1]]
    /\ UNCHANGED <<KEYWORDS_LOWER, textVars, entryVars, fileVars, disk, selected_extensions,
                   threads_var, max_size_var, gui_config, guiVars, scanVars>>

\* the sizes the user types into the size field, in MB
SizeChoices == {1, 2}

\* the user types into the threads field or the size field
edit_fields ==
    /\ UserEdits
    /\ \E threads \in 1..MaxWorkers, size \in SizeChoices :
           /\ <<threads, size>> # <<threads_var, max_size_var>>
           /\ threads_var' = threads
           /\ max_size_var' = size
    /\ UNCHANGED <<KEYWORDS_LOWER, textVars, entryVars, fileVars, disk, directories_list,
                   selected_extensions, gui_config, guiVars, scanVars>>

\* the texts the user types into the keywords box
SessionKeywordTexts == { <<<<"u">>>>, <<<<"g">>>> }

\* the user types into the keywords box (saved and loaded by the next
\* start_search)
edit_keywords ==
    /\ UserEdits
    /\ \E typed \in SessionKeywordTexts :
           /\ typed # keywords_file
           /\ keywords_file' = typed
    /\ UNCHANGED <<KEYWORDS_LOWER, text, found, called, entryVars, fileVars, disk,
                   directories_list, selected_extensions, threads_var, max_size_var,
                   gui_config, guiVars, scanVars>>

SessionDisk ==
    <<Healthy(DirA, <<"a">> \o DOT_TXT, <<"U", "g">>),
      Healthy(DirB, <<"c">> \o DOT_TXT, <<"u">>)>>

\* the machine at the window: every optional library is installed; whether
\* a call of the progress callback can raise
WindowHost(fails) ==
    [installed |-> Capabilities, callback_fails |-> fails, search_images |-> TRUE]

\* the window before the first scan, for `sessions` scans to come
InitWindowOf(sessions, fails) ==
    /\ KEYWORDS_LOWER = {}
    /\ keywords_file = <<<<"u">>>>
    /\ TextIdle
    /\ keywords_raises = {}
    /\ load_result = NotCalled
    /\ reports = {}
    /\ cli = IdleCli
    /\ host = WindowHost(fails)
    /\ FileIdle
    /\ selected_extensions = <<<<"*">> \o DOT_TXT>>
    /\ max_size_var = 1
    /\ gui_config = {}
    /\ edits = 0
    /\ is_searching = FALSE
    /\ total_files = 0
    /\ processed_files = 0
    /\ after_queue = <<>>
    /\ scan = [s \in 1..sessions |-> IdleScan]
    /\ output = <<>>
    /\ events = <<>>
    /\ passes = <<>>
    /\ started = [s \in 1..sessions |-> 0]
    /\ stopped_at = [s \in 1..sessions |-> -1]

WindowDisk ==
    <<Healthy(DirA, <<"a">> \o DOT_TXT, <<"U", "g">>),
      Healthy(DirA, <<"b">> \o DOT_TXT, <<"g">>),
      Healthy(DirB, <<"c">> \o DOT_TXT, <<"u">>)>>

InitWindow ==
    /\ InitWindowOf(1, TRUE)
    /\ disk = WindowDisk
    /\ directories_list \in {<<DirA>>, <<DirA, DirB>>}
    /\ threads_var \in 1..MaxWorkers

NextWindow ==
    \/ add_directory
    \/ remove_directory
    \/ edit_fields
    \/ Next

SpecWindow == InitWindow /\ [][NextWindow]_vars

InitSession ==
    /\ InitWindowOf(MaxSessions, FALSE)
    /\ disk = SessionDisk
    /\ directories_list \in {<<DirA>>, <<DirA, DirB>>}
    /\ threads_var = 1

NextSession ==
    \/ edit_keywords
    \/ Next

SpecSession == InitSession /\ [][NextSession]_vars

(***************************************************************************)
(* Properties of a scan.                                                   *)
(***************************************************************************)
PassesOf(s) == {n \in 1..Len(passes) : passes[n].scan = s}

\* the positions <<pass, index>> at which file k of the disk was handled in scan s
Handled(s, k) ==
    {nj \in PassesOf(s) \X (1..Len(disk)) :
        /\ nj[2] <= Len(passes[nj[1]].files)
        /\ passes[nj[1]].files[nj[2]] = k}

\* file k of the disk is under a configured root and matches a selected pattern
Admitted(k) ==
    \E i \in 1..Len(directories_list) :
        /\ IsUnder(disk[k].dir, directories_list[i])
        /\ MatchesAny(disk[k].name, selected_extensions)

Uncancelled(s) == scan[s].pc = "done" /\ stopped_at[s] = -1

\* C2: in a scan that ran to its end without cancellation, every admitted
\* file was handled exactly once (neither dropped nor processed twice).
C2_ExactlyOnce ==
    \A s \in Scans :
        Uncancelled(s) =>
            \A k \in 1..Len(disk) : Admitted(k) => Cardinality(Handled(s, k)) = 1

RECURSIVE FilesInPasses(_, _)
FilesInPasses(s, n) ==
    IF n = 0 THEN 0
    ELSE (IF passes[n].scan = s THEN Len(passes[n].files) ELSE 0) + FilesInPasses(s, n - 1)

\* the number of files process_file has returned for in scan s
Processed(s) ==
    FilesInPasses(s, Len(passes))
    + (IF scan[s].pc = "pool"
       THEN Cardinality({k \in 1..Len(scan[s].fut) : scan[s].fut[k] \in {"done", "yielded"}})
       ELSE 0)

\* C3: when stop_search ran after K files of the scan had started, at most
\* K + worker_count files of the scan are ever processed.
C3_CancelBound ==
    \A s \in Scans :
        stopped_at[s] >= 0 => Processed(s) <= stopped_at[s] + threads_var

\* C4: a call of search_files always returns, also when process_file never
\* returns for one of its files (the per-file timeout lets the scan go on).
C4_TimeoutTerminates ==
    \A s \in ScanIds : (scan[s].pc = "pool") ~> (scan[s].pc # "pool")

PassFile(n, j) == disk[passes[n].files[j]]

\* what process_file returns for the j-th file of pass n when called alone
Alone(n, j) ==
    process_file(PassFile(n, j), selected_extensions, max_size_var, gui_config,
                 LoadedKeywords(keywords_file))

\* the file is read as plain text and cannot be read
UnreadableText(file) ==
    /\ Lower(SplitExt(FilePath(file))) = DOT_TXT
    /\ file.parts[1].fault = "container"

\* the file is a PDF that PyMuPDF opens and that fails at page m
PdfFailsAt(file, m) ==
    /\ SplitExt(FilePath(file)) = DOT_PDF
    /\ "has_pdf" \in gui_config
    /\ m \in 1..Len(file.parts)
    /\ file.parts[m].fault = "container"
    /\ \A i \in 1..(m - 1) : file.parts[i].fault = "none"

\* the keywords of the request that occur in the text pages before page m
KeywordsBefore(file, m) ==
    {kw \in LoadedKeywords(keywords_file) :
        \E i \in 1..(m - 1) :
            /\ file.parts[i].kind = "text"
            /\ Occurs(kw, Lower(file.parts[i].text))}

C6_MonotonicProgress ==
    \A m, n \in 1..Len(events) :
        m < n /\ events[m].scan = events[n].scan => events[m].count <= events[n].count

\* C7: within one scan no path is recorded twice, neither in the results
\* run_search reports nor in the blocks written to the output file.
C7_PathOnce ==
    /\ \A m, n \in 1..Len(passes) :
           m < n /\ passes[m].scan = passes[n].scan
               => DOMAIN passes[m].results \cap DOMAIN passes[n].results = {}
    /\ \A m, n \in 1..Len(output) :
           m < n /\ output[m].scan = output[n].scan => output[m].path # output[n].path

\* the entries of a zip archive that are read as text, match a selected
\* pattern and are reached before any selected entry fails
TextEntries(file) ==
    {i \in 1..Len(file.parts) :
        /\ file.parts[i].kind = "entry"
        /\ MatchesAny(file.parts[i].file.name, selected_extensions)
        /\ EndsWithAny(Lower(file.parts[i].file.name), ArchiveTextSuffixes)
        /\ \A h \in 1..i :
               file.parts[h].kind = "entry"
               /\ MatchesAny(file.parts[h].file.name, selected_extensions)
                   => file.parts[h].fault = "none"}

\* the keywords of the request that occur in entry i of the archive
EntryKeywords(file, i) ==
    {kw \in LoadedKeywords(keywords_file) :
        Occurs(kw, Lower(SourceText(file.parts[i].file)))}

VirtualPath(file, i) == PathJoin(FilePath(file), file.parts[i].file.name)

\* C10 (amended): a .zip archive whose own path matches a selected pattern,
\* with a text entry that matches a selected pattern, is reached before any
\* selected entry fails and contains a keyword, is recorded under the
\* archive's own path with (at least) the entry's keywords; no entry path
\* is a key of the results.
C10_ArchiveKeyed ==
    \A n \in 1..Len(passes) : \A j \in 1..Len(passes[n].files) :
        LET file == PassFile(n, j)
            got  == passes[n].results
        IN  /\ EndsWith(FilePath(file), DOT_ZIP)
            /\ MatchesAny(FilePath(file), selected_extensions)
            /\ ~TooLarge(file, max_size_var)
            => \A i \in TextEntries(file) :
                   /\ VirtualPath(file, i) \notin DOMAIN got
                   /\ EntryKeywords(file, i) # {}
                          => /\ FilePath(file) \in DOMAIN got
                             /\ EntryKeywords(file, i) \subseteq got[FilePath(file)]

\* a finished search_files call recorded a zip archive for a keyword of one
\* of its text entries
C10_Witness ==
    \E n \in 1..Len(passes) : \E j \in 1..Len(passes[n].files) :
        /\ EndsWith(FilePath(PassFile(n, j)), DOT_ZIP)
        /\ \E i \in TextEntries(PassFile(n, j)) : EntryKeywords(PassFile(n, j), i) # {}
        /\ FilePath(PassFile(n, j)) \in DOMAIN passes[n].results

\* C10 as stated: for a zip archive under the scanned root with a text entry
\* that matches a selected pattern and contains a keyword, the results map
\* the entry's virtual path to the matched keywords.
C10_VirtualPath ==
    \A n \in 1..Len(passes) : \A k \in 1..Len(disk) :
        /\ IsUnder(disk[k].dir, passes[n].root)
        /\ EndsWith(disk[k].name, DOT_ZIP)
        => \A i \in 1..Len(disk[k].parts) :
               /\ disk[k].parts[i].kind = "entry"
               /\ MatchesAny(disk[k].parts[i].file.name, selected_extensions)
               /\ EndsWith(disk[k].parts[i].file.name, DOT_TXT)
               /\ EntryKeywords(disk[k], i) # {}
               => /\ VirtualPath(disk[k], i) \in DOMAIN passes[n].results
                  /\ passes[n].results[VirtualPath(disk[k], i)] = EntryKeywords(disk[k], i)

\* a healthy plain-text file within the size limit
PlainTextFile(file) ==
    /\ Lower(SplitExt(FilePath(file))) = DOT_TXT
    /\ Len(file.parts) = 1
    /\ file.parts[1].kind = "text"
    /\ file.parts[1].fault = "none"
    /\ ~file.hangs
    /\ ~TooLarge(file, max_size_var)

\* the keywords of the request that occur in the content of a plain-text file
ContentKeywords(file) ==
    {kw \in LoadedKeywords(keywords_file) : Occurs(kw, Lower(file.parts[1].text))}

\* C11: the results of a finished search_files call hold, of the plain-text
\* files it listed, exactly those whose content contains a keyword
\* (case-insensitively), each mapped to exactly the keywords it contains.
C11_ExactMatches ==
    \A n \in 1..Len(passes) : \A j \in 1..Len(passes[n].files) :
        LET file == PassFile(n, j)
            path == FilePath(file)
            got  == passes[n].results
        IN  PlainTextFile(file) =>
                /\ (path \in DOMAIN got) <=> (ContentKeywords(file) # {})
                /\ path \in DOMAIN got => got[path] = ContentKeywords(file)

\* what a finished search_files call hands to its caller: the results map
\* and nothing else
SearchFilesOutcome(n) == [matches |-> passes[n].results]

\* an image file the call listed and passed to process_file while the OCR
\* capability was off
SkippedImage(n, j) ==
    /\ Lower(SplitExt(FilePath(PassFile(n, j)))) \in ImageSuffixes
    /\ MatchesAny(FilePath(PassFile(n, j)), selected_extensions)
    /\ ~TooLarge(PassFile(n, j), max_size_var)
    /\ ~ConfigGet(gui_config, "has_ocr")

\* C12: with the OCR capability off, a listed image file is in neither the
\* matches nor the errors of the final outcome and is counted in its
\* "skipped: capability unavailable" tally.
C12_SkippedTally ==
    \A n \in 1..Len(passes) : \A j \in 1..Len(passes[n].files) :
        SkippedImage(n, j) =>
            /\ FilePath(PassFile(n, j)) \notin DOMAIN SearchFilesOutcome(n).matches
            /\ <<"error", PassFile(n, j).name>> \notin passes[n].logs
            /\ "skipped" \in DOMAIN SearchFilesOutcome(n)
            /\ PassFile(n, j).name \in SearchFilesOutcome(n).skipped

\* the files of the disk that search_files lists under a root
ListedUnder(root_dir) ==
    {k \in 1..Len(disk) : /\ IsUnder(disk[k].dir, root_dir)
                          /\ MatchesAny(disk[k].name, selected_extensions)}

\* what process_file returns for file k of the disk under the request
ReturnedAlone(k) ==
    process_file(disk[k], selected_extensions, max_size_var, gui_config,
                 LoadedKeywords(keywords_file)).ret

\* the results map fixed by the tree, the keywords and the request alone
ExpectedResults(root_dir) ==
    LET hit == {k \in ListedUnder(root_dir) : ReturnedAlone(k) # EmptyDict}
    IN  [q \in {FilePath(disk[k]) : k \in hit} |->
            LET k == CHOOSE h \in hit : FilePath(disk[h]) = q
            IN  ReturnedAlone(k)[q]]

SameDict(d, r) ==
    /\ DOMAIN d = DOMAIN r
    /\ \A q \in DOMAIN d : d[q] = r[q]

\* C13: two finished search_files calls over the same root of the unchanged
\* tree, with the same keywords and request, return the same paths mapped to
\* the same keyword sets, in whatever order the workers finished: the results
\* are the map fixed by the tree, the keywords and the request.
C13_Idempotent ==
    \A n \in 1..Len(passes) : \A m \in 1..Len(passes) :
        passes[n].root = passes[m].root =>
            /\ SameDict(passes[n].results, passes[m].results)
            /\ SameDict(passes[n].results, ExpectedResults(passes[n].root))

\* the same root was searched twice with two workers and two files matched
C13_Witness ==
    \E n \in 1..Len(passes) : \E m \in 1..Len(passes) :
        /\ n < m
        /\ passes[n].root = passes[m].root
        /\ threads_var = 2
        /\ Cardinality(DOMAIN passes[m].results) = 2

\* the result maps search_files has recorded entries in during scan s: those
\* of its finished calls and that of the call in progress
RecordedMaps(s) ==
    [n \in PassesOf(s) |-> passes[n].results]

InProgress(s) == IF scan[s].pc = "pool" THEN scan[s].results ELSE EmptyDict

\* how many times path q was recorded in scan s, and with which keywords
RecordedCount(s, q) ==
    Cardinality({n \in PassesOf(s) : q \in DOMAIN RecordedMaps(s)[n]})
        + (IF q \in DOMAIN InProgress(s) THEN 1 ELSE 0)

RecordedKeywords(s, q) ==
    {RecordedMaps(s)[n][q] : n \in {m \in PassesOf(s) : q \in DOMAIN RecordedMaps(s)[m]}}
        \cup (IF q \in DOMAIN InProgress(s) THEN {InProgress(s)[q]} ELSE {})

BlocksOf(s, q) == {b \in 1..Len(output) : output[b].scan = s /\ output[b].path = q}

DiskPaths == {FilePath(disk[k]) : k \in 1..Len(disk)}

NeverCancelled == \A t \in Scans : stopped_at[t] = -1

\* C19: a root that does not exist or cannot be read does not stop the scan:
\* when no scan was ever cancelled, a scan that ended has called
\* search_files once for every root of the list, the missing ones included,
\* and the call on each root recorded the matches of that root.
C19_MissingRootSkipped ==
    \A s \in Scans :
        scan[s].pc = "done" /\ NeverCancelled =>
            /\ Cardinality(PassesOf(s)) = Len(directories_list)
            /\ \A i \in 1..Len(directories_list) :
                   \E n \in PassesOf(s) :
                       /\ passes[n].root = directories_list[i]
                       /\ SameDict(passes[n].results, ExpectedResults(directories_list[i]))

\* a scan over a missing root followed by a root with a matching file ended,
\* and the match of the second root was recorded
C19_Witness ==
    \E s \in Scans :
        /\ Uncancelled(s)
        /\ directories_list = <<DirN, DirA>>
        /\ \E n \in PassesOf(s) : passes[n].root = DirN /\ passes[n].files = <<>>
        /\ \E n \in PassesOf(s) : passes[n].root = DirA /\ DOMAIN passes[n].results # {}

\* the files search_files has submitted to its pool in scan s, as disk indices
Submitted(s) == {scan[s].files[j] : j \in 1..Len(scan[s].files)}

Oversize(file) == file.size > max_size_var * BytesPerMB

\* the capability the file's extension maps to is not enabled in the request
NoCapability(file) ==
    /\ CapabilityOf(Lower(SplitExt(file.name))) # "none"
    /\ CapabilityOf(Lower(SplitExt(file.name))) \notin gui_config

PfFound ==
    IF pf_out.ret = EmptyDict THEN {} ELSE pf_out.ret[FilePath(pf_in.file)]

PfCalled(extractor) == <<extractor, pf_in.file.name>> \in pf_out.calls

\* the container library raises at part m of the file, and at no part before
PfFailsAt(m) ==
    /\ m \in 1..Len(pf_in.file.parts)
    /\ pf_in.file.parts[m].fault = "container"
    /\ \A i \in 1..(m - 1) : pf_in.file.parts[i].fault # "container"

\* the keywords that occur in the parts before part m: in its readable text
\* parts, and in its parts of any kind
PfTextKeywordsBefore(m) ==
    {kw \in KEYWORDS_LOWER :
        \E i \in 1..(m - 1) :
            /\ pf_in.file.parts[i].kind = "text"
            /\ Occurs(kw, Lower(pf_in.file.parts[i].text))}

PfKeywordsBefore(m) ==
    {kw \in KEYWORDS_LOWER :
        \E i \in 1..(m - 1) : Occurs(kw, Lower(pf_in.file.parts[i].text))}

Extractors ==
    {"search_in_image", "search_in_pdf", "search_in_docx", "search_in_excel",
     "search_in_archive"}

PfSoundTextEntry(i) ==
    /\ pf_in.file.parts[i].kind = "entry"
    /\ pf_in.file.parts[i].fault = "none"
    /\ MatchesAny(pf_in.file.parts[i].file.name, pf_in.extensions)
    /\ EndsWithAny(Lower(pf_in.file.parts[i].file.name), ArchiveTextSuffixes)

PfEntryKeywords(i) ==
    {kw \in KEYWORDS_LOWER : Occurs(kw, Lower(SourceText(pf_in.file.parts[i].file)))}

\* search_in_archive recognises the archive by the suffix of its path
PfOpened == EndsWithAny(FilePath(pf_in.file), ArchiveSuffixes)

\* opening, reading or extracting some entry of the archive fails
PfEntryFails ==
    \E j \in 1..Len(pf_in.file.parts) : pf_in.file.parts[j].fault = "container"

\* C16: while search_in_archive processes an archive, the failure of one
\* entry does not abort the others: every readable, pattern-matching text
\* entry of the archive is processed and its keywords are in the result.
C16_SiblingsProcessed ==
    (pf_done /\ PfCalled("search_in_archive") /\ PfOpened /\ PfEntryFails) =>
        \A i \in 1..Len(pf_in.file.parts) :
            PfSoundTextEntry(i) => PfEntryKeywords(i) \subseteq PfFound

(***************************************************************************)
(* Properties of a session at the window.                                  *)
(***************************************************************************)
\* C21: from the start of a scan until its thread and workers have finished,
\* every call of search_in_text made for that scan sees one and the same
\* keyword set, whatever start_search and stop_search actions happen.
C21_OneKeywordSetPerScan ==
    \A s \in Scans : Cardinality(scan[s].seen) <= 1

\* the thread of scan s is at the write of a result: its as_completed loop
\* holds a finished future with matches, which it adds to its results map
\* and appends to search_results.txt through its own handle, under no lock
WritesNext(s) ==
    /\ scan[s].pc = "pool"
    /\ \E k \in 1..Len(scan[s].fut) :
           scan[s].fut[k] = "done" /\ scan[s].res[k] # EmptyDict

\* C22: at every moment at most one thread is updating a result map or
\* writing to search_results.txt, for every interleaving of workers and of
\* GUI actions: never are two threads at such a write together.
C22_SingleWriter ==
    \A s \in Scans : \A t \in Scans : (WritesNext(s) /\ WritesNext(t)) => s = t

\* C23: once stop_search has cleared is_searching during a scan, the thread
\* of that scan begins no further root: no call of search_files, finished or
\* under way, was begun by a scan that had been stopped.
C23_NoRootAfterStop ==
    /\ \A s \in Scans : scan[s].pc = "pool" => ~scan[s].late
    /\ \A n \in 1..Len(passes) : ~passes[n].late

(***************************************************************************)
(* The gate, for the entries of an archive.                                *)
(***************************************************************************)
\* the extractors search_in_archive passes an entry to
EntryExtractors ==
    {"search_in_text", "search_in_image", "search_in_pdf", "search_in_docx",
     "search_in_excel"}

\* the entries of the archive process_file was called on
PfEntries ==
    {pf_in.file.parts[i].file :
        i \in {j \in 1..Len(pf_in.file.parts) : pf_in.file.parts[j].kind = "entry"}}

\* search_in_archive passed the entry to an extractor
PfPassed(entry) == \E x \in EntryExtractors : <<x, entry.name>> \in pf_out.calls

PfEntrySizeOk(entry) == entry.size <= pf_in.max_file_size * BytesPerMB

PfEntryMatches(entry) == MatchesAny(entry.name, pf_in.extensions)

PfEntryCapable(entry) ==
    CapabilityOf(Lower(SplitExt(entry.name))) \in pf_in.config \cup {"none"}

\* C24: every entry of an archive that search_in_archive passes to an
\* extractor satisfies the size limit, matches a configured pattern and has
\* its capability enabled, as a top-level file must.
C24_EntryGate ==
    pf_done =>
        \A entry \in PfEntries :
            PfPassed(entry) =>
                PfEntrySizeOk(entry) /\ PfEntryMatches(entry) /\ PfEntryCapable(entry)

(***************************************************************************)
(* The capabilities, from check_dependencies to search_files.              *)
(***************************************************************************)
\* search_files has been called for scan s, with scan[s].config
SearchFilesCalled(s) == scan[s].pc = "pool" \/ PassesOf(s) # {}

\* C25: for both entry points (main and start_search), every capability
\* that check_dependencies found available is enabled in the config passed
\* to search_files.
C25_CapabilitiesThreaded ==
    \A s \in Scans : SearchFilesCalled(s) => host.installed \subseteq scan[s].config

(***************************************************************************)
(* The request of a scan, while the user edits the window.                 *)
(***************************************************************************)
\* the roots scan s has called search_files on and returned from, in order
RootsScanned(s) ==
    LET mine == SelectSeq(passes, LAMBDA pass : pass.scan = s)
    IN  [n \in 1..Len(mine) |-> mine[n].root]

\* C26: the roots, the worker count and the maximum file size used by a
\* running scan are those that held when start_search launched it, whatever
\* add_directory, remove_directory or field edits happen while it runs.
C26_RequestImmutable ==
    \A s \in Scans :
        /\ scan[s].pc = "pool" =>
               /\ scan[s].idx <= Len(scan[s].request.roots)
               /\ scan[s].root = scan[s].request.roots[scan[s].idx]
               /\ scan[s].max_workers = scan[s].request.workers
               /\ scan[s].max_file_size = scan[s].request.size
        /\ (scan[s].pc = "done" /\ NeverCancelled) =>
               RootsScanned(s) = scan[s].request.roots

(***************************************************************************)
(* The pool of one search_files call.                                      *)
(***************************************************************************)
\* C27: during a call of search_files at most max_workers files are inside
\* process_file at the same time, and every candidate file of the root was
\* enumerated and submitted before the first one is dispatched.
C27_PoolBound ==
    \A s \in Scans :
        scan[s].pc = "pool" =>
            /\ Cardinality(Running(s)) <= scan[s].max_workers
            /\ scan[s].files = Enumerate(scan[s].root, scan[s].extensions)
            /\ DOMAIN scan[s].fut = DOMAIN scan[s].files

\* the pool is full: every worker is inside process_file and a file waits
C27_Witness ==
    \E s \in Scans :
        /\ scan[s].pc = "pool"
        /\ Cardinality(Running(s)) = scan[s].max_workers
        /\ Pending(s) # {}
        /\ Len(scan[s].files) >= 2

(***************************************************************************)
(* The progress events of one search_files call.                           *)
(***************************************************************************)
\* the calls of the progress callback made by the search_files call that
\* ended as pass n, in order
EventsOf(n) ==
    SelectSeq(events, LAMBDA ev : ev.scan = passes[n].scan /\ ev.idx = passes[n].idx)

\* the result of a future is in the results map
Recorded(result, results) ==
    \A q \in DOMAIN result : q \in DOMAIN results /\ results[q] = result[q]

\* C28: search_files invokes the progress callback exactly once for each
\* submitted file, with the count start_count + i at the i-th completion
\* (i from 1), and a callback that raises does not prevent the result of the
\* file from being recorded.
C28_OneEventPerFile ==
    /\ \A n \in 1..Len(passes) :
           /\ Len(EventsOf(n)) = Len(passes[n].files)
           /\ \A k \in 1..Len(passes[n].files) :
                  Cardinality({i \in 1..Len(EventsOf(n)) :
                                   EventsOf(n)[i].file = passes[n].files[k]}) = 1
           /\ \A i \in 1..Len(EventsOf(n)) :
                  EventsOf(n)[i].count = passes[n].start_count + i
           /\ \A k \in 1..Len(passes[n].files) :
                  Recorded(passes[n].res[k], passes[n].results)
    /\ \A s \in Scans :
           scan[s].pc = "pool" =>
               \A k \in 1..Len(scan[s].fut) :
                   scan[s].fut[k] = "yielded" => Recorded(scan[s].res[k], scan[s].results)

\* a finished call on two files, begun at a count above 0, in which the
\* callback raised for a file with matches
C28_Witness ==
    \E n \in 1..Len(passes) :
        /\ Len(passes[n].files) = 2
        /\ passes[n].start_count > 0
        /\ \E i \in 1..Len(EventsOf(n)) :
               /\ EventsOf(n)[i].raised
               /\ \E k \in 1..Len(passes[n].files) :
                      /\ passes[n].files[k] = EventsOf(n)[i].file
                      /\ passes[n].res[k] # EmptyDict

(***************************************************************************)
(* What is recorded.                                                       *)
(***************************************************************************)
\* C29: every entry of a results map of search_files, returned or being
\* built, and every block written to the output destination, maps a path to
\* a non-empty keyword set; a file with zero matches is never recorded.
C29_NonEmptyEntries ==
    /\ \A n \in 1..Len(passes) :
           \A q \in DOMAIN passes[n].results : passes[n].results[q] # {}
    /\ \A s \in Scans : \A q \in DOMAIN scan[s].results : scan[s].results[q] # {}
    /\ \A b \in 1..Len(output) : output[b].keywords # {}

\* a finished call on a root with a file that matches, recorded and written,
\* and a file without matches
C29_Witness ==
    \E n \in 1..Len(passes) :
        /\ DOMAIN passes[n].results # {}
        /\ \E b \in 1..Len(output) : output[b].path \in DOMAIN passes[n].results
        /\ \E k \in 1..Len(passes[n].files) :
               /\ passes[n].res[k] = EmptyDict
               /\ FilePath(disk[passes[n].files[k]]) \notin DOMAIN passes[n].results
               /\ LogsAt([logs |-> passes[n].logs], "error") = {}

(***************************************************************************)
(* The temporary extraction directories of one call of process_file.       *)
(***************************************************************************)
\* the temporary directories the call created, and those it removed
PfCreated == {l[2] : l \in {c \in pf_out.calls : c[1] = "mkdtemp"}}

PfRemoved == {l[2] : l \in {c \in pf_out.calls : c[1] = "cleanup"}}

InnerKeywords(inner) ==
    {kw \in KEYWORDS_LOWER :
        \E j \in 1..Len(inner.parts) :
            /\ inner.parts[j].kind = "entry"
            /\ inner.parts[j].fault = "none"
            /\ MatchesAny(inner.parts[j].file.name, pf_in.extensions)
            /\ EndsWithAny(Lower(inner.parts[j].file.name), ArchiveTextSuffixes)
            /\ Occurs(kw, Lower(SourceText(inner.parts[j].file)))}

\* entry i of the archive is itself an archive that matches a pattern
PfInnerArchive(i) ==
    /\ pf_in.file.parts[i].kind = "entry"
    /\ pf_in.file.parts[i].fault = "none"
    /\ MatchesAny(pf_in.file.parts[i].file.name, pf_in.extensions)
    /\ EndsWithAny(pf_in.file.parts[i].file.name, ArchiveSuffixes)

\* C31: when an entry of an archive is itself an archive whose name matches
\* the patterns, search_in_archive searches the entries of the inner archive
\* and the keywords found there are in the result of the outer archive.
C31_NestedArchives ==
    (pf_done /\ PfCalled("search_in_archive") /\ PfOpened /\ ~PfEntryFails) =>
        \A i \in 1..Len(pf_in.file.parts) :
            PfInnerArchive(i) => InnerKeywords(pf_in.file.parts[i].file) \subseteq PfFound

(***************************************************************************)
(* An entry of an archive, against the same file under the root.           *)
(***************************************************************************)
\* the entry as a file of its own, next to the archive
AsTopLevel(entry) == DiskFile(pf_in.file.dir, entry.name, entry.size, entry.parts, FALSE)

\* the keywords process_file returns for the entry placed under the root,
\* under the request of the call
TopLevelFound(entry) ==
    LET ret == process_file(AsTopLevel(entry), pf_in.extensions, pf_in.max_file_size,
                            pf_in.config, KEYWORDS_LOWER).ret
    IN  IF ret = EmptyDict THEN {} ELSE ret[FilePath(AsTopLevel(entry))]

\* an entry that both gates let through as it is, and that is no archive
PfComparable(entry) ==
    /\ PfEntryMatches(entry)
    /\ MatchesAny(FilePath(AsTopLevel(entry)), pf_in.extensions)
    /\ PfEntrySizeOk(entry)
    /\ ~EndsWithAny(Lower(entry.name), ArchiveSuffixes)

\* C32: an archive entry is dispatched to the extractor process_file selects
\* for a top-level file with its extension: a pattern-matching entry yields
\* the keywords the same file yields when placed directly under the root.
C32_EntryDispatch ==
    (pf_done /\ PfCalled("search_in_archive") /\ PfOpened /\ ~PfEntryFails) =>
        /\ \A entry \in PfEntries : PfComparable(entry) => TopLevelFound(entry) \subseteq PfFound
        /\ (\A entry \in PfEntries : PfComparable(entry)) =>
               PfFound \subseteq UNION {TopLevelFound(entry) : entry \in PfEntries}

(***************************************************************************)
(* The encodings of a plain-text file.                                     *)
(***************************************************************************)
\* bytes.decode('cp1251'): every byte of the model is a letter
DecodeCp1251(bytes) ==
    [i \in 1..Len(bytes) |-> IF bytes[i] = "xE3" THEN "U+0433" ELSE bytes[i]]

\* strict UTF-8 decoding raises UnicodeDecodeError on the bytes
InvalidUtf8(bytes) == \E i \in 1..Len(bytes) : bytes[i] \in HighBytes

\* the text of the fallback loop of process_file: the first of cp1251,
\* iso-8859-1, latin1 that decodes the bytes, which is cp1251
DecodeLegacy(bytes) == DecodeCp1251(bytes)

\* the raw bytes of the file process_file was called on
PfBytes == pf_in.file.parts[1].bytes

\* C33: for a plain-text file that is not valid UTF-8, process_file matches
\* the keywords against the text decoded by the first of cp1251, iso-8859-1,
\* latin1 that succeeds.
C33_LegacyEncodings ==
    (pf_done /\ pf_in.file.parts[1].kind = "bytes" /\ InvalidUtf8(PfBytes)) =>
        PfFound = search_in_text(DecodeLegacy(PfBytes), KEYWORDS_LOWER)

(***************************************************************************)
(* The search threads of a session.                                        *)
(***************************************************************************)
\* the run_search threads that were started and have not ended
LiveThreads == {s \in Scans : Alive(s)}

\* C34: at most one run_search thread is alive at any time, for every
\* sequence of start_search and stop_search: no scan is started while the
\* thread of a stopped scan is still running.
C34_OneSearchThread == Cardinality(LiveThreads) <= 1

\* C35: a scan that the user did not stop scans every root of the directory
\* list and ends by reporting completion; the clearing of is_searching by
\* another thread never ends it early.
C35_UnstoppedScanCompletes ==
    \A s \in Scans :
        Uncancelled(s) =>
            /\ scan[s].complete
            /\ RootsScanned(s) = scan[s].request.roots

(***************************************************************************)
(* The progress shown at the window.                                       *)
(***************************************************************************)
\* the calls of the progress callback made for scan s, in order
EventsOfScan(s) == SelectSeq(events, LAMBDA ev : ev.scan = s)

\* C36: when a scan over an unchanged tree completes without cancellation,
\* the last cumulative count delivered to the observer equals total_files,
\* the number of files counted before the scan, also over several roots.
C36_ProgressReachesTotal ==
    \A s \in Scans :
        (Uncancelled(s) /\ scan[s].complete /\ EventsOfScan(s) # <<>>) =>
            EventsOfScan(s)[Len(EventsOfScan(s))].count = total_files

\* C37: in every reachable state of the GUI processed_files is at most
\* total_files (the displayed progress never exceeds 100 percent), for every
\* sequence of start_search, stop_search and progress callbacks.
C37_ProgressBound == processed_files <= total_files

(***************************************************************************)
(* The two pattern checks.                                                 *)
(***************************************************************************)
\* the extension check of process_file lets file k of the disk through
PassesWorkerCheck(k, extensions) == MatchesAny(FilePath(disk[k]), extensions)

\* C38: the enumeration filter and the worker's extension check agree:
\* every file search_files enumerates (its base name matches a pattern) also
\* passes the extension check of process_file (full path against the same
\* patterns), so no enumerated file is dropped by the second check.
C38_FiltersAgree ==
    \A s \in Scans :
        scan[s].pc = "pool" =>
            \A j \in 1..Len(scan[s].files) :
                PassesWorkerCheck(scan[s].files[j], scan[s].extensions)

(***************************************************************************)
(* The output destination after a scan.                                    *)
(***************************************************************************)
\* no scan was started after scan s
LastScan(s) == \A t \in Scans : t > s => scan[t].pc = "unborn"

\* the paths of the results search_files returned to scan s, over its roots
ScanPaths(s) == UNION {DOMAIN passes[n].results : n \in PassesOf(s)}

\* the blocks search_results.txt holds that scan s did not write
ForeignBlocks(s) == {b \in 1..Len(output) : output[b].scan # s}

\* C39: after a scan completes, the output destination holds exactly one
\* block for each path of the results of that scan and no block that the
\* scan did not produce, also when the destination already held the blocks
\* of an earlier scan.
C39_OutputIsScanResult ==
    \A s \in Scans :
        (Uncancelled(s) /\ scan[s].complete /\ LastScan(s)) =>
            /\ ForeignBlocks(s) = {}
            /\ \A q \in ScanPaths(s) : Cardinality(BlocksOf(s, q)) = 1

(***************************************************************************)
(* The search_images option.                                               *)
(***************************************************************************)
\* directory A with a second file that holds an image: a picture, a PDF with
\* an embedded picture, an archive with a picture among its entries
ImageFiles ==
    { DiskFile(DirA, <<"x">> \o DOT_PNG, 1, <<ImagePart(<<"u">>, "none")>>, FALSE),
      DiskFile(DirA, <<"p">> \o DOT_PDF, 1,
               <<TextPart(<<"g">>, "none"), ImagePart(<<"u">>, "none")>>, FALSE),
      DiskFile(DirA, <<"c">> \o DOT_ZIP, 1,
               <<EntryPart(Source(<<"i">> \o DOT_PNG, 1, <<ImagePart(<<"u">>, "none")>>),
                           "none")>>, FALSE) }

ImageDisks ==
    { <<Healthy(DirA, <<"a">> \o DOT_TXT, <<"U", "g">>), second,
        Healthy(DirB, <<"c">> \o DOT_TXT, <<"u">>)>> : second \in ImageFiles }

\* the extensions of config.txt, which the extensions field shows
ImageExtensionLists ==
    { <<<<"*">> \o DOT_TXT, <<"*">> \o DOT_ZIP, <<"*">> \o DOT_PDF, <<"*">> \o DOT_PNG>>,
      <<<<"*">> \o DOT_TXT, <<"*">> \o DOT_ZIP, <<"*">> \o DOT_PDF>>,
      <<<<"*">>>> }

\* what check_dependencies may find, with search_images on or off
ImageHosts ==
    {[installed |-> c, callback_fails |-> FALSE, search_images |-> b] :
        c \in {Capabilities, {}}, b \in BOOLEAN}

InitImages ==
    /\ KEYWORDS_LOWER = {}
    /\ keywords_file = <<<<"u">>>>
    /\ TextIdle
    /\ keywords_raises = {}
    /\ load_result = NotCalled
    /\ reports = {}
    /\ cli = IdleCli
    /\ host \in ImageHosts
    /\ FileIdle
    /\ disk \in ImageDisks
    /\ directories_list = <<DirA>>
    /\ selected_extensions \in ImageExtensionLists
    /\ threads_var \in 1..MaxWorkers
    /\ max_size_var = 1
    /\ gui_config = {}
    /\ edits = 0
    /\ is_searching = FALSE
    /\ total_files = 0
    /\ processed_files = 0
    /\ after_queue = <<>>
    /\ scan = [s \in ScanIds |-> IdleScan]
    /\ output = <<>>
    /\ events = <<>>
    /\ passes = <<>>
    /\ started = [s \in ScanIds |-> 0]
    /\ stopped_at = [s \in ScanIds |-> -1]

\* a scan entered through main() or through the window, over a tree with images
SpecImages == InitImages /\ [][NextMain]_vars

\* the recognition steps (Image.open, image_to_string) reached so far by the
\* process_file calls of the search_files call that scan s is in
OcrCalls(s) ==
    UNION { {c \in process_file(disk[scan[s].files[k]], scan[s].extensions,
                                scan[s].max_file_size, scan[s].config,
                                KEYWORDS_LOWER).calls : c[1] = "ocr"} :
            k \in {j \in 1..Len(scan[s].fut) : scan[s].fut[j] \in {"done", "yielded"}} }

\* C40: when search_images is off, no image is passed to OCR recognition
\* during a scan, from main() or from the window: neither a top-level image,
\* nor an image entry of an archive, nor an image embedded in a PDF or DOCX
\* reaches the recognition step of search_in_image.
C40_NoOcrWhenOff ==
    \A s \in Scans :
        (scan[s].pc = "pool" /\ ~host.search_images) => OcrCalls(s) = {}

=============================================================================
